---------------------------- MODULE Spec2Model ----------------------------
(***************************************************************************)
(* Model of airdrop-bot/bot.py: the SQLite tables (users, ledger,          *)
(* submissions, recipe_fingerprints, pending_rewards), the helpers that    *)
(* read and write them, and the three update handlers (start, on_callback, *)
(* on_any_text).  A handler is a sequence of SQL statements; each          *)
(* statement is committed on its own (sqlite3 autocommit of a single       *)
(* INSERT/UPDATE/DELETE followed by conn.commit(), SELECT outside any      *)
(* transaction), so one statement is one atomic step and the steps of      *)
(* handlers that run at the same time interleave.                          *)
(***************************************************************************)
EXTENDS Integers, Sequences, FiniteSets, Bags, TLC

(***************************************************************************)
(* Bounds of the model.                                                    *)
(***************************************************************************)
NUsers == 2
MaxDays == 3
NSlots == 2
MaxTicks == 2
MaxChanges == 2

UserIds == 1..NUsers
\* One more Telegram user, who only ever sends /start, with or without the
\* referral code of one of the users above.
Invitee == NUsers + 1
AllUserIds == UserIds \cup {Invitee}
\* Slot <<u, i>> holds the i-th handler running at the same time for user u.
Slots == AllUserIds \X (1..NSlots)

(***************************************************************************)
(* Configuration (bot.py:61-84).  config.json is not part of the sources;  *)
(* the point values are the defaults of the code, the mission catalog is a *)
(* campaign with one immediate and one delayed mission.                    *)
(***************************************************************************)
POINT_WALLET_REGISTER == 50
POINT_REFERRAL_QUALIFIED == 100
POINT_DAILY_CHECKIN == 10

MISSIONS ==
    { [id |-> "x_follow", points |-> 20, delay_minutes |-> 0, validator |-> "x_profile"],
      [id |-> "recipe_submit", points |-> 30, delay_minutes |-> 1, validator |-> "recipe_text"] }

NULL == "NULL"
NoUser == 0

\* Wallet texts that match WALLET_RE; every other text does not.
WalletTexts == {"0xA", "0xB"}

WALLET_RE(text) == text \in WalletTexts

VARIABLES
    users,                \* table users: user_id -> row
    ledger,               \* table ledger: bag of rows (id and created_at left out)
    submissions,          \* table submissions
    recipe_fingerprints,  \* table recipe_fingerprints
    pending_rewards,      \* table pending_rewards
    now_ts,               \* int(time.time())
    slots,                \* the handler invocations in progress
    reply,                \* the message the step just taken sent
    offered,              \* per user, the inline buttons the bot has sent so far
    calls,                \* history: the (user, key) pairs add_points_once was called with
    granted,              \* history: per user, the sum of the amounts of successful inserts
    ret,                  \* history: the last direct call of add_points_once
    reported,             \* history: bag of (user, mission) process_due_rewards returned as credited
    claimed               \* history: the (mission, user, text) of the fingerprint claims that succeeded

tables == <<users, ledger, submissions, recipe_fingerprints, pending_rewards>>
history == <<calls, granted, ret, reported, claimed>>
vars == <<tables, now_ts, slots, reply, offered, history>>

(***************************************************************************)
(* Table users (bot.py:108-120) and the unique index on wallet_address     *)
(* (bot.py:169-176).                                                       *)
(***************************************************************************)
ref_code_of(user_id) == "rc" \o ToString(user_id)

new_user_row(user_id) ==
    [ ref_code |-> ref_code_of(user_id),
      referred_by |-> NoUser,
      wallet_address |-> NULL,
      wallet_pending |-> NULL,
      wallet_change_count |-> 0,
      state |-> NULL ]

ensure_user(tbl, user_id) ==
    IF user_id \in DOMAIN tbl
    THEN tbl
    ELSE [u \in DOMAIN tbl \cup {user_id} |->
            IF u = user_id THEN new_user_row(user_id) ELSE tbl[u]]

find_user_by_ref_code(tbl, ref_code) ==
    IF \E u \in DOMAIN tbl : tbl[u].ref_code = ref_code
    THEN CHOOSE u \in DOMAIN tbl : tbl[u].ref_code = ref_code
    ELSE NoUser

set_state_none_ignored(tbl, user_id, state) ==
    IF state = NULL THEN tbl ELSE [tbl EXCEPT ![user_id].state = state]

set_state(tbl, user_id, state) ==
    IF user_id \in DOMAIN tbl
    THEN [tbl EXCEPT ![user_id].state = state]
    ELSE tbl

\* SELECT user_id FROM users WHERE wallet_address = ? AND user_id != ?
wallet_dup(tbl, address, user_id) ==
    \E u \in DOMAIN tbl : u # user_id /\ tbl[u].wallet_address = address

\* idx_unique_wallet_address: the UPDATE that would give two rows the same
\* non-NULL wallet_address raises sqlite3.IntegrityError and changes nothing.
idx_unique_wallet_address_dropped(tbl, address, user_id) == FALSE

idx_unique_wallet_address(tbl, address, user_id) ==
    address # NULL /\ \E u \in DOMAIN tbl : u # user_id /\ tbl[u].wallet_address = address

(***************************************************************************)
(* Table ledger, UNIQUE(user_id, unique_key) (bot.py:122-133).             *)
(***************************************************************************)
ledger_rows(led, user_id, unique_key) ==
    {r \in BagToSet(led) : r.user_id = user_id /\ r.unique_key = unique_key}

RECURSIVE sum_amounts(_, _)
sum_amounts(led, rows) ==
    IF rows = {} THEN 0
    ELSE LET r == CHOOSE x \in rows : TRUE
         IN  r.amount * CopiesIn(r, led) + sum_amounts(led, rows \ {r})

RECURSIVE count_rows(_, _)
count_rows(led, rows) ==
    IF rows = {} THEN 0
    ELSE LET r == CHOOSE x \in rows : TRUE
         IN  CopiesIn(r, led) + count_rows(led, rows \ {r})

\* The number of ledger rows of (user_id, unique_key).
entries(led, user_id, unique_key) ==
    count_rows(led, ledger_rows(led, user_id, unique_key))

add_points_once_no_unique(led, user_id, unique_key, typ, amount) ==
    [ ok |-> TRUE,
      ledger |-> led (+) SetToBag({[user_id |-> user_id, unique_key |-> unique_key,
                                    type |-> typ, amount |-> amount]}) ]

add_points_once(led, user_id, unique_key, typ, amount) ==
    IF ledger_rows(led, user_id, unique_key) = {}
    THEN [ ok |-> TRUE,
           ledger |-> led (+) SetToBag({[user_id |-> user_id, unique_key |-> unique_key,
                                         type |-> typ, amount |-> amount]}) ]
    ELSE [ ok |-> FALSE, ledger |-> led ]

get_points(led, user_id) ==
    sum_amounts(led, {r \in BagToSet(led) : r.user_id = user_id})

(***************************************************************************)
(* Table pending_rewards, PRIMARY KEY (user_id, mission_id)                *)
(* (bot.py:155-165).                                                       *)
(***************************************************************************)
add_pending_reward(pend, user_id, mission_id, unique_key, amount, delay_minutes, now) ==
    IF \E p \in pend : p.user_id = user_id /\ p.mission_id = mission_id
    THEN [ ok |-> FALSE, pending_rewards |-> pend ]
    ELSE [ ok |-> TRUE,
           pending_rewards |-> pend \cup
               {[ user_id |-> user_id, mission_id |-> mission_id,
                  unique_key |-> unique_key, amount |-> amount,
                  available_at_ts |-> now + delay_minutes * 60 ]} ]

due_rows_at_any_time(pend, user_id, now) ==
    {p \in pend : p.user_id = user_id}

\* SELECT ... FROM pending_rewards WHERE user_id=? AND available_at_ts<=?
due_rows(pend, user_id, now) ==
    {p \in pend : p.user_id = user_id /\ p.available_at_ts <= now}

\* DELETE FROM pending_rewards WHERE user_id=? AND mission_id=?
delete_pending(pend, user_id, mission_id) ==
    {p \in pend : ~(p.user_id = user_id /\ p.mission_id = mission_id)}

(***************************************************************************)
(* Configuration lookups and validators.                                   *)
(***************************************************************************)
MissionIds == {m.id : m \in MISSIONS}

\* get_mission returns None for an id that is not in the catalog.
NoMission == [id |-> "", points |-> 0, delay_minutes |-> 0, validator |-> ""]

get_mission(mission_id) ==
    IF mission_id \in MissionIds
    THEN CHOOSE m \in MISSIONS : m.id = mission_id
    ELSE NoMission

\* Mission ids a button or a stored state can carry: the catalog's and one
\* that the catalog does not hold.
CarriedMissionIds == MissionIds \cup {"retired"}

\* data.split(":", 1)[1] and state.split(":", 1)[1]
mission_id_of(prefix, str) ==
    IF \E id \in CarriedMissionIds : str = prefix \o id
    THEN CHOOSE id \in CarriedMissionIds : str = prefix \o id
    ELSE ""

\* str.startswith(prefix), for the strings that carry a mission id
starts_with_mission(prefix, str) ==
    \E id \in CarriedMissionIds : str = prefix \o id

\* Texts matching X_PROFILE_URL_RE, and texts that pass the recipe_text rules.
XProfileTexts == {"https://x.com/alice"}
RecipeTexts ==
    {"Ingredients ... Steps ... (recipe one)", "Ingredients ... Steps ... (recipe two)"}

validate_nothing_passes(validator, text) == FALSE

validate(validator, text) ==
    IF validator = "x_profile" THEN text \in XProfileTexts
    ELSE IF validator = "recipe_text" THEN text \in RecipeTexts
    ELSE TRUE

(***************************************************************************)
(* Dates and streaks (bot.py:450-479, 669-671).  A date is the number of   *)
(* days since the first day of the campaign, in the campaign's timezone;   *)
(* day 0 begins at now_ts = 0.                                             *)
(***************************************************************************)
Days == 0..MaxDays

\* datetime.now(TZ).date()
today(now) == now \div 86400

\* today_date.strftime("%Y-%m-%d")
strftime(d) == "2024-01-0" \o ToString(d + 1)

daily_checkin_key_checkin(d) == "checkin:" \o strftime(d)

daily_checkin_key(d) == "daily_checkin:" \o strftime(d)

streak_bonus_key(days, d) == "streak_bonus:" \o ToString(days) \o ":" \o strftime(d)

STREAK_BONUSES == {[days |-> 3, points |-> 50]}

\* get_checkin_dates: the dates parsed from the keys of the user's rows of
\* type daily_checkin
get_checkin_dates(led, user_id) ==
    {d \in Days : \E r \in BagToSet(led) :
        /\ r.user_id = user_id
        /\ r.type = "daily_checkin"
        /\ r.unique_key = "daily_checkin:" \o strftime(d)}

\* while d in dates: streak += 1; d = d - timedelta(days=1)
RECURSIVE streak_from(_, _)
streak_from(dates, d) ==
    IF d \in dates THEN 1 + streak_from(dates, d - 1) ELSE 0

compute_streak_gaps_ignored(led, user_id, today_date) ==
    Cardinality({d \in get_checkin_dates(led, user_id) : d <= today_date})

compute_streak(led, user_id, today_date) ==
    streak_from(get_checkin_dates(led, user_id), today_date)

(***************************************************************************)
(* Handler invocations.  A slot holds one running handler: its position    *)
(* (pc) and its local variables.  An update's content (callback data,      *)
(* message text, /start argument) is drawn when the handler first reads    *)
(* it; until then the slot only knows which handler got the update and     *)
(* from which group of inputs the content will come.  A local that is not  *)
(* read again is reset, so that equal futures are equal states.            *)
(***************************************************************************)
NoRow == [ wallet_address |-> NULL, wallet_change_count |-> 0, state |-> NULL ]

NoPending ==
    [ user_id |-> NoUser, mission_id |-> "", unique_key |-> "", amount |-> 0,
      available_at_ts |-> 0 ]

idle_slot ==
    [ pc |-> "done", update |-> "", inputs |-> "", user_id |-> NoUser, data |-> "",
      user_row |-> NoRow, pending |-> NULL, referred_by |-> NoUser,
      rows |-> {}, r |-> NoPending, ok |-> FALSE, credited |-> {},
      mission_id |-> "", buttons |-> {}, due |-> {}, today_date |-> 0, streak |-> 0 ]

no_reply ==
    [ user_id |-> NoUser, update |-> "", data |-> "", text |-> "", error |-> "",
      due |-> {}, referred_by |-> NoUser, mission_id |-> "", today_date |-> 0,
      streak |-> 0 ]

Init ==
    /\ users = <<>>
    /\ ledger = EmptyBag
    /\ submissions = {}
    /\ recipe_fingerprints = {}
    /\ pending_rewards = {}
    /\ now_ts = 0
    /\ slots = [h \in Slots |-> idle_slot]
    /\ reply = no_reply
    /\ offered = [u \in AllUserIds |-> {}]
    /\ calls = {}
    /\ granted = [u \in AllUserIds |-> 0]
    /\ ret = [user_id |-> NoUser, unique_key |-> "", ok |-> FALSE, first |-> FALSE]
    /\ reported = EmptyBag
    /\ claimed = {}

\* The inline keyboard sent with a message (bot.py:563-587, 603-605,
\* 641-643, 984-987, 1005-1008).
reply_markup(text) ==
    IF text = "Please confirm your wallet address"
    THEN {"wallet_confirm", "wallet_retry"}
    ELSE IF text = "Please confirm your NEW wallet address"
    THEN {"wallet_change_confirm", "wallet_change_retry"}
    ELSE IF text = "Wallet already registered. Need to change it?"
    THEN {"wallet_change"}
    ELSE IF text = "Bonus Missions"
    THEN {"daily_checkin"} \cup {"mission:" \o m.id : m \in MISSIONS}
    ELSE IF text = "Balance"
    THEN {"invite_friend"}
    ELSE {}

\* The handler of slot h returns, after sending text (no message when "").
\* reply holds what the step just taken sent, and in answer to which input.
finish(h, text) ==
    /\ slots' = [slots EXCEPT ![h] = idle_slot]
    /\ reply' = IF text = "" THEN no_reply
                ELSE [user_id |-> slots[h].user_id, update |-> slots[h].update,
                      data |-> slots[h].data, text |-> text, error |-> "",
                      due |-> slots[h].due, referred_by |-> slots[h].referred_by,
                      mission_id |-> slots[h].mission_id,
                      today_date |-> slots[h].today_date, streak |-> slots[h].streak]
    /\ offered' = [offered EXCEPT ![h[1]] = @ \cup reply_markup(text)]

\* The handler of slot h ends with an exception nothing in bot.py catches:
\* no message is sent.
raise(h, error) ==
    /\ slots' = [slots EXCEPT ![h] = idle_slot]
    /\ reply' = [user_id |-> slots[h].user_id, update |-> slots[h].update,
                 data |-> slots[h].data, text |-> "", error |-> error,
                 due |-> slots[h].due, referred_by |-> slots[h].referred_by,
                 mission_id |-> slots[h].mission_id,
                 today_date |-> slots[h].today_date, streak |-> slots[h].streak]
    /\ UNCHANGED offered

\* The handler of slot h goes on to position pc with the locals of s.
goto(h, s, pc) ==
    /\ slots' = [slots EXCEPT ![h] = [s EXCEPT !.pc = pc]]
    /\ reply' = no_reply
    /\ UNCHANGED offered

(***************************************************************************)
(* The inputs of each group.                                               *)
(***************************************************************************)
RefCodes == {ref_code_of(u) : u \in UserIds}

WalletButtons ==
    {"wallet_change", "wallet_confirm", "wallet_retry", "wallet_change_confirm",
     "wallet_change_retry"}

FirstWalletButtons == {"wallet_confirm", "wallet_retry"}

WalletInputs == WalletTexts \cup {"Connect Wallet"}

MissionButtons == {"mission:" \o id : id \in MissionIds}

DelayedMissionIds == {m.id : m \in {x \in MISSIONS : x.delay_minutes > 0}}

DelayedButtons == {"mission:" \o id : id \in DelayedMissionIds}

MissionInputs == XProfileTexts \cup RecipeTexts

ImmediateMissionIds == {m.id : m \in {x \in MISSIONS : x.delay_minutes = 0}}

KeysButtons ==
    {"wallet_confirm", "daily_checkin"} \cup {"mission:" \o id : id \in ImmediateMissionIds}

Inputs(update, inputs) ==
    IF update = "start" THEN
        IF inputs = "referral" THEN RefCodes \cup {""}
        ELSE IF inputs = "invitee" THEN RefCodes \cup {ref_code_of(Invitee), ""}
        ELSE {""}
    ELSE IF update = "callback" THEN
        IF inputs = "wallet" THEN WalletButtons
        ELSE IF inputs = "first_wallet" THEN FirstWalletButtons
        ELSE IF inputs = "mission" THEN MissionButtons \cup {"wallet_confirm"}
        ELSE IF inputs = "delayed" THEN DelayedButtons \cup {"wallet_confirm"}
        ELSE IF inputs = "checkin" THEN {"wallet_confirm"}
        ELSE IF inputs = "keys" THEN KeysButtons
        ELSE IF inputs = "conversation" THEN WalletButtons \cup MissionButtons
        ELSE IF inputs = "dedup" \/ inputs = "dedup_first"
        THEN DelayedButtons \cup {"wallet_confirm"}
        ELSE {"invite_friend"}
    ELSE
        IF inputs = "wallet" \/ inputs = "first_wallet" THEN WalletInputs
        ELSE IF inputs = "mission"
        THEN MissionInputs \cup WalletTexts \cup {"Connect Wallet", "Bonus"}
        ELSE IF inputs = "delayed"
        THEN RecipeTexts \cup {"0xA", "Connect Wallet", "Bonus"}
        ELSE IF inputs = "checkin" THEN {"0xA", "Connect Wallet"}
        ELSE IF inputs = "keys" THEN XProfileTexts \cup {"0xA", "Connect Wallet", "Bonus"}
        ELSE IF inputs = "dedup"
        THEN RecipeTexts \cup {"0xA", "Connect Wallet", "Bonus"}
        ELSE IF inputs = "dedup_first"
        THEN {"Ingredients ... Steps ... (recipe one)", "0xB", "Connect Wallet", "Bonus"}
        ELSE IF inputs = "conversation"
        THEN MissionInputs \cup WalletTexts \cup {"Connect Wallet", "Bonus", "hello"}
        ELSE {"Terms"}

\* The pending rewards of user_id that are eligible at time now.
eligible(pend, user_id, now) ==
    {p \in pend : p.user_id = user_id /\ p.available_at_ts <= now}

\* An update arrives and is given to the handler registered for it
\* (bot.py:1120-1122): "start", "callback" or "text".  A callback comes from
\* a button of a message the user has been sent.  The slot remembers in due
\* which rewards of the user were eligible when the update arrived.
receive(h, update, inputs) ==
    LET buttons == IF update = "callback"
                   THEN Inputs(update, inputs) \cap offered[h[1]]
                   ELSE {}
    IN
    /\ slots[h].pc = "done"
    /\ update = "callback" => buttons # {}
    /\ slots' = [slots EXCEPT ![h] =
                    [idle_slot EXCEPT !.pc = "ensure_user", !.update = update,
                                      !.inputs = inputs, !.user_id = h[1],
                                      !.buttons = buttons,
                                      !.due = eligible(pending_rewards, h[1], now_ts)]]
    /\ reply' = no_reply
    /\ UNCHANGED <<tables, now_ts, offered, history>>

WELCOME == "Welcome! Use the menu below."
CONNECT_FIRST == "Please connect your wallet first!"
CREDITED_NOW == "Your delayed rewards are now credited"

\* ensure_user(user_id, username): first statement of every handler.  start
\* then looks at context.args (bot.py:527-531).
handler_ensure_user(h) ==
    LET s == slots[h] IN
    /\ s.pc = "ensure_user"
    /\ users' = ensure_user(users, s.user_id)
    /\ IF s.update = "start"
       THEN \E ref_code \in Inputs(s.update, s.inputs) :
                IF ref_code = "" THEN finish(h, WELCOME)
                ELSE goto(h, [s EXCEPT !.data = ref_code], "find_user_by_ref_code")
       ELSE goto(h, s, "get_user")
    /\ UNCHANGED <<ledger, submissions, recipe_fingerprints, pending_rewards, now_ts, history>>

\* user_row = get_user(user_id) (bot.py:655, 943)
handler_get_user(h) ==
    LET s == slots[h]
        row == users[s.user_id]
    IN
    /\ s.pc = "get_user"
    /\ goto(h, [s EXCEPT !.user_row =
                   [ wallet_address |-> row.wallet_address,
                     wallet_change_count |-> row.wallet_change_count,
                     state |-> row.state ]],
            "process_due_rewards")
    /\ UNCHANGED <<tables, now_ts, history>>

(***************************************************************************)
(* Where on_callback goes after process_due_rewards (bot.py:663-937): the  *)
(* branches that return without touching the database end here, the       *)
(* others continue at their first statement.  user_row is the row read     *)
(* before process_due_rewards ran.                                         *)
(***************************************************************************)
on_callback_route(user_row, data) ==
    LET no_wallet == user_row.wallet_address = NULL IN
    IF data = "daily_checkin" THEN
        IF no_wallet THEN [pc |-> "done", text |-> CONNECT_FIRST]
        ELSE [pc |-> "daily_checkin_add_points", text |-> ""]
    ELSE IF data = "invite_friend" THEN
        IF no_wallet THEN [pc |-> "done", text |-> CONNECT_FIRST]
        ELSE [pc |-> "done", text |-> "Invite friend"]
    ELSE IF starts_with_mission("mission:", data) THEN
        IF no_wallet THEN [pc |-> "done", text |-> CONNECT_FIRST]
        ELSE IF get_mission(mission_id_of("mission:", data)) = NoMission
             THEN [pc |-> "done", text |-> "Mission not found in config.json."]
             ELSE [pc |-> "mission_set_state", text |-> ""]
    ELSE IF data = "wallet_change" THEN
        IF no_wallet THEN [pc |-> "done", text |-> CONNECT_FIRST]
        ELSE IF user_row.wallet_change_count >= 1
             THEN [pc |-> "done", text |-> "Wallet change is limited."]
             ELSE [pc |-> "wallet_change_update", text |-> ""]
    ELSE IF data = "wallet_confirm" THEN [pc |-> "wallet_confirm_select", text |-> ""]
    ELSE IF data = "wallet_retry" THEN [pc |-> "wallet_retry_update", text |-> ""]
    ELSE IF data = "wallet_change_confirm"
         THEN [pc |-> "wallet_change_confirm_select", text |-> ""]
    ELSE IF data = "wallet_change_retry"
         THEN [pc |-> "wallet_change_retry_update", text |-> ""]
    ELSE [pc |-> "done", text |-> ""]

(***************************************************************************)
(* Where on_any_text goes after process_due_rewards (bot.py:951-1103): the *)
(* menu routing first, then the dispatch on the state column of the row    *)
(* read before process_due_rewards ran.                                    *)
(***************************************************************************)
WALLET_INCORRECT == "The wallet address is not correct. Check it out!"
VALIDATION_ERROR == "(validation error)"

on_any_text_route(user_row, text) ==
    LET state == user_row.state
        mission_id == mission_id_of("MISSION:", state)
        m == get_mission(mission_id)
    IN
    IF text = "Terms" THEN [pc |-> "done", text |-> "Terms"]
    ELSE IF text = "Bonus" THEN [pc |-> "bonus_has_wallet", text |-> ""]
    ELSE IF text = "Connect Wallet" THEN [pc |-> "connect_wallet_get_user", text |-> ""]
    ELSE IF text = "Balance" THEN [pc |-> "balance_has_wallet", text |-> ""]
    ELSE IF text = "Chat" THEN [pc |-> "ai_chat_start_set_state", text |-> ""]
    ELSE IF state = "AI_CHAT" THEN [pc |-> "done", text |-> "(answer of the recipe AI)"]
    ELSE IF state = "AWAIT_WALLET" THEN
        IF ~WALLET_RE(text)
        THEN [pc |-> "done", text |-> WALLET_INCORRECT]
        ELSE [pc |-> "await_wallet_update", text |-> ""]
    ELSE IF state = "AWAIT_WALLET_CHANGE" THEN
        IF ~WALLET_RE(text)
        THEN [pc |-> "done", text |-> WALLET_INCORRECT]
        ELSE [pc |-> "await_wallet_change_update", text |-> ""]
    ELSE IF starts_with_mission("MISSION:", state) THEN
        IF m = NoMission THEN [pc |-> "mission_unconfigured_set_state", text |-> ""]
        ELSE IF ~validate(m.validator, text)
             THEN [pc |-> "done", text |-> VALIDATION_ERROR]
        ELSE IF mission_id = "recipe_submit"
             THEN [pc |-> "claim_recipe_fingerprint", text |-> ""]
        ELSE [pc |-> "insert_submission", text |-> ""]
    ELSE [pc |-> "done", text |-> "Use the menu buttons below."]

\* The handler of slot h, with locals s, has finished process_due_rewards:
\* it reads the update's content and dispatches on it.
after_due_rewards(h, s) ==
    \E data \in IF s.update = "callback" THEN s.buttons
                 ELSE Inputs(s.update, s.inputs) :
        LET to == IF s.update = "callback" THEN on_callback_route(s.user_row, data)
                  ELSE on_any_text_route(s.user_row, data)
            mission_id == IF s.update = "callback"
                          THEN mission_id_of("mission:", data)
                          ELSE mission_id_of("MISSION:", s.user_row.state)
            text == IF to.text = "" /\ s.credited # {} THEN CREDITED_NOW ELSE to.text
        IN  IF to.pc = "done"
            THEN /\ slots' = [slots EXCEPT ![h] = idle_slot]
                 /\ reply' = IF text = "" THEN no_reply
                             ELSE [user_id |-> s.user_id, update |-> s.update,
                                   data |-> data, text |-> text, error |-> "",
                                   due |-> s.due, referred_by |-> NoUser,
                                   mission_id |-> "", today_date |-> 0,
                                   streak |-> 0]
                 /\ offered' = [offered EXCEPT ![h[1]] = @ \cup reply_markup(text)]
            ELSE goto(h, [s EXCEPT !.data = data,
                                   !.buttons = {},
                                   !.mission_id = mission_id,
                                   !.user_row = NoRow,
                                   !.credited = {},
                                   !.today_date = IF to.pc = "daily_checkin_add_points"
                                                  THEN today(now_ts) ELSE 0],
                      to.pc)

(***************************************************************************)
(* A call of add_points_once by a handler.  Besides the ledger it updates  *)
(* the record of the calls: calls holds the (user, key) pairs the function *)
(* has been called with, granted[u] the sum of the amounts inserted for u, *)
(* ret the last call, what it returned and whether it was the first call   *)
(* with its (user, key).                                                   *)
(***************************************************************************)
call_add_points_once(user_id, unique_key, typ, amount) ==
    LET res == add_points_once(ledger, user_id, unique_key, typ, amount)
        inserted == entries(res.ledger, user_id, unique_key)
                        - entries(ledger, user_id, unique_key)
    IN
    /\ ledger' = res.ledger
    /\ calls' = calls \cup {<<user_id, unique_key>>}
    /\ granted' = [granted EXCEPT ![user_id] = @ + amount * inserted]
    /\ ret' = [user_id |-> user_id, unique_key |-> unique_key, ok |-> res.ok,
               first |-> <<user_id, unique_key>> \notin calls]

(***************************************************************************)
(* process_due_rewards (bot.py:277-304).                                   *)
(***************************************************************************)
\* now_ts = int(time.time()); SELECT ...; rows = cur.fetchall()
process_due_rewards_select(h) ==
    LET s == slots[h]
        rows == due_rows(pending_rewards, s.user_id, now_ts)
    IN
    /\ s.pc = "process_due_rewards"
    /\ IF rows = {}
       THEN after_due_rewards(h, s)
       ELSE goto(h, [s EXCEPT !.rows = rows], "process_due_rewards_add_points")
    /\ UNCHANGED <<tables, now_ts, history>>

\* for r in rows: ok = add_points_once(user_id, unique_key, ...)
process_due_rewards_add_points(h) ==
    LET s == slots[h] IN
    /\ s.pc = "process_due_rewards_add_points"
    /\ \E r \in s.rows :
         /\ call_add_points_once(s.user_id, r.unique_key,
                                 "mission:" \o r.mission_id, r.amount)
         /\ goto(h, [s EXCEPT !.r = r, !.ok = ret'.ok], "process_due_rewards_delete")
    /\ UNCHANGED <<users, submissions, recipe_fingerprints, pending_rewards, now_ts, reported, claimed>>

delete_only_if_credited(ok) == ok

\* Whether the row just processed is deleted: always, credited now or before
\* (bot.py:296-298).
delete_regardless(ok) == TRUE

\* DELETE FROM pending_rewards ...; if ok: credited.append(...)
process_due_rewards_delete(h) ==
    LET s == slots[h]
        credited == IF s.ok THEN s.credited \cup {<<s.r.mission_id, s.r.amount>>}
                    ELSE s.credited
        rest == s.rows \ {s.r}
        s2 == [s EXCEPT !.rows = rest, !.r = NoPending, !.ok = FALSE,
                        !.credited = credited]
    IN
    /\ s.pc = "process_due_rewards_delete"
    /\ pending_rewards' = IF delete_regardless(s.ok)
                          THEN delete_pending(pending_rewards, s.user_id, s.r.mission_id)
                          ELSE pending_rewards
    /\ reported' = IF s.ok
                   THEN reported (+) SetToBag({<<s.user_id, s.r.mission_id>>})
                   ELSE reported
    /\ IF rest = {}
       THEN after_due_rewards(h, s2)
       ELSE goto(h, s2, "process_due_rewards_add_points")
    /\ UNCHANGED <<users, ledger, submissions, recipe_fingerprints, now_ts, calls, granted, ret, claimed>>

\* The process is killed after add_points_once has committed and before the
\* DELETE: the handler is gone, the pending row stays.
process_due_rewards_interrupted(h) ==
    /\ slots[h].pc = "process_due_rewards_delete"
    /\ slots' = [slots EXCEPT ![h] = idle_slot]
    /\ reply' = no_reply
    /\ UNCHANGED <<tables, now_ts, offered, history>>

(***************************************************************************)
(* start (bot.py:525-543) with set_referred_by_if_empty (bot.py:224-234).  *)
(***************************************************************************)
\* ref_user = find_user_by_ref_code(ref_code); if user_id == referrer_id: return
start_find_user_by_ref_code(h) ==
    LET s == slots[h]
        ref_user == find_user_by_ref_code(users, s.data)
    IN
    /\ s.pc = "find_user_by_ref_code"
    /\ IF ref_user = NoUser \/ ref_user = s.user_id
       THEN finish(h, WELCOME)
       ELSE goto(h, [s EXCEPT !.data = "", !.referred_by = ref_user],
                 "set_referred_by_select")
    /\ UNCHANGED <<tables, now_ts, history>>

\* SELECT referred_by FROM users WHERE user_id = ?
set_referred_by_if_empty_select(h) ==
    LET s == slots[h] IN
    /\ s.pc = "set_referred_by_select"
    /\ IF users[s.user_id].referred_by = NoUser
       THEN goto(h, s, "set_referred_by_update")
       ELSE finish(h, WELCOME)
    /\ UNCHANGED <<tables, now_ts, history>>

\* UPDATE users SET referred_by = ? WHERE user_id = ?
set_referred_by_if_empty_update(h) ==
    LET s == slots[h] IN
    /\ s.pc = "set_referred_by_update"
    /\ users' = [users EXCEPT ![s.user_id].referred_by = s.referred_by]
    /\ finish(h, WELCOME)
    /\ UNCHANGED <<ledger, submissions, recipe_fingerprints, pending_rewards, now_ts, history>>


(***************************************************************************)
(* on_callback, data == "wallet_change" (bot.py:763-793).                  *)
(***************************************************************************)
wallet_change_update(h) ==
    LET s == slots[h] IN
    /\ s.pc = "wallet_change_update"
    /\ users' = [users EXCEPT ![s.user_id].state = "AWAIT_WALLET_CHANGE",
                              ![s.user_id].wallet_pending = NULL]
    /\ finish(h, "Change Wallet: please enter your NEW BSC wallet address")
    /\ UNCHANGED <<ledger, submissions, recipe_fingerprints, pending_rewards, now_ts, history>>

(***************************************************************************)
(* on_callback, data == "wallet_confirm" (bot.py:795-858).                 *)
(***************************************************************************)
ALREADY_BY_ANOTHER == "This wallet address is already registered by another user."
ALREADY_REGISTERED == "This wallet address is already registered."
REGISTERED_OK == "You have successfully registered your wallet"

\* SELECT wallet_address, wallet_pending, referred_by FROM users WHERE user_id = ?
wallet_confirm_select(h) ==
    LET s == slots[h]
        dbrow == users[s.user_id]
    IN
    /\ s.pc = "wallet_confirm_select"
    /\ IF dbrow.wallet_address # NULL
       THEN finish(h, "Wallet already registered.")
       ELSE IF dbrow.wallet_pending = NULL
       THEN finish(h, "No pending wallet found. Please try Connect Wallet again.")
       ELSE goto(h, [s EXCEPT !.pending = dbrow.wallet_pending,
                              !.referred_by = dbrow.referred_by],
                 "wallet_confirm_dup")
    /\ UNCHANGED <<tables, now_ts, history>>

\* global duplication check
wallet_confirm_dup(h) ==
    LET s == slots[h] IN
    /\ s.pc = "wallet_confirm_dup"
    /\ IF wallet_dup(users, s.pending, s.user_id)
       THEN finish(h, ALREADY_BY_ANOTHER)
       ELSE goto(h, s, "wallet_confirm_update")
    /\ UNCHANGED <<tables, now_ts, history>>

\* UPDATE users SET wallet_address = ?, wallet_pending = NULL, state = NULL ...
\* inside try/except sqlite3.IntegrityError
wallet_confirm_update(h) ==
    LET s == slots[h] IN
    /\ s.pc = "wallet_confirm_update"
    /\ IF idx_unique_wallet_address(users, s.pending, s.user_id)
       THEN /\ finish(h, ALREADY_REGISTERED)
            /\ UNCHANGED users
       ELSE /\ users' = [users EXCEPT ![s.user_id].wallet_address = s.pending,
                                      ![s.user_id].wallet_pending = NULL,
                                      ![s.user_id].state = NULL]
            /\ goto(h, [s EXCEPT !.pending = NULL], "wallet_confirm_register")
    /\ UNCHANGED <<ledger, submissions, recipe_fingerprints, pending_rewards, now_ts, history>>

\* add_points_once(user_id, "wallet_register", "wallet_register", POINT_WALLET_REGISTER)
wallet_confirm_register(h) ==
    LET s == slots[h] IN
    /\ s.pc = "wallet_confirm_register"
    /\ call_add_points_once(s.user_id, "wallet_register", "wallet_register",
                            POINT_WALLET_REGISTER)
    /\ IF s.referred_by # NoUser
       THEN goto(h, s, "wallet_confirm_referral")
       ELSE finish(h, REGISTERED_OK)
    /\ UNCHANGED <<users, submissions, recipe_fingerprints, pending_rewards, now_ts, reported, claimed>>

\* add_points_once(int(referred_by), f"referral:{user_id}", ...)
wallet_confirm_referral(h) ==
    LET s == slots[h] IN
    /\ s.pc = "wallet_confirm_referral"
    /\ call_add_points_once(s.referred_by, "referral:" \o ToString(s.user_id),
                            "referral_wallet_connected", POINT_REFERRAL_QUALIFIED)
    /\ finish(h, REGISTERED_OK)
    /\ UNCHANGED <<users, submissions, recipe_fingerprints, pending_rewards, now_ts, reported, claimed>>

(***************************************************************************)
(* on_callback, data == "wallet_retry" (bot.py:860-870).                   *)
(***************************************************************************)
wallet_retry_update(h) ==
    LET s == slots[h] IN
    /\ s.pc = "wallet_retry_update"
    /\ users' = [users EXCEPT ![s.user_id].wallet_pending = NULL,
                              ![s.user_id].state = "AWAIT_WALLET"]
    /\ finish(h, "Enter your BSC wallet address again:")
    /\ UNCHANGED <<ledger, submissions, recipe_fingerprints, pending_rewards, now_ts, history>>

(***************************************************************************)
(* on_callback, data == "wallet_change_confirm" (bot.py:872-924).          *)
(***************************************************************************)
UPDATED_OK == "Wallet updated successfully."

\* SELECT wallet_address, wallet_pending, wallet_change_count FROM users ...
wallet_change_confirm_select(h) ==
    LET s == slots[h]
        dbrow == users[s.user_id]
    IN
    /\ s.pc = "wallet_change_confirm_select"
    /\ IF dbrow.wallet_address = NULL
       THEN finish(h, "No existing wallet found. Use Connect Wallet first.")
       ELSE IF dbrow.wallet_pending = NULL
       THEN finish(h, "No pending wallet found. Please try again.")
       ELSE IF dbrow.wallet_pending = dbrow.wallet_address
       THEN finish(h, "This is the same wallet as current. No changes made.")
       ELSE goto(h, [s EXCEPT !.pending = dbrow.wallet_pending],
                 "wallet_change_confirm_dup")
    /\ UNCHANGED <<tables, now_ts, history>>

wallet_change_confirm_dup(h) ==
    LET s == slots[h] IN
    /\ s.pc = "wallet_change_confirm_dup"
    /\ IF wallet_dup(users, s.pending, s.user_id)
       THEN finish(h, ALREADY_BY_ANOTHER)
       ELSE goto(h, s, "wallet_change_confirm_update")
    /\ UNCHANGED <<tables, now_ts, history>>

wallet_change_confirm_update_count_kept(h) ==
    LET s == slots[h] IN
    /\ s.pc = "wallet_change_confirm_update"
    /\ IF idx_unique_wallet_address(users, s.pending, s.user_id)
       THEN /\ raise(h, "sqlite3.IntegrityError")
            /\ UNCHANGED users
       ELSE /\ users' = [users EXCEPT ![s.user_id].wallet_address = s.pending,
                                      ![s.user_id].wallet_pending = NULL,
                                      ![s.user_id].state = NULL]
            /\ finish(h, UPDATED_OK)
    /\ UNCHANGED <<ledger, submissions, recipe_fingerprints, pending_rewards, now_ts, history>>

\* UPDATE users SET wallet_address = ?, wallet_pending = NULL, state = NULL,
\*   wallet_change_count = COALESCE(wallet_change_count,0)+1 ...
\* with no try/except around it.  The counter is capped at MaxChanges to
\* keep the model finite.
wallet_change_confirm_update(h) ==
    LET s == slots[h] IN
    /\ s.pc = "wallet_change_confirm_update"
    /\ users[s.user_id].wallet_change_count < MaxChanges
    /\ IF idx_unique_wallet_address(users, s.pending, s.user_id)
       THEN /\ raise(h, "sqlite3.IntegrityError")
            /\ UNCHANGED users
       ELSE /\ users' = [users EXCEPT ![s.user_id].wallet_address = s.pending,
                                      ![s.user_id].wallet_pending = NULL,
                                      ![s.user_id].state = NULL,
                                      ![s.user_id].wallet_change_count = @ + 1]
            /\ finish(h, UPDATED_OK)
    /\ UNCHANGED <<ledger, submissions, recipe_fingerprints, pending_rewards, now_ts, history>>

(***************************************************************************)
(* on_callback, data == "wallet_change_retry" (bot.py:926-937).            *)
(***************************************************************************)
wallet_change_retry_update(h) ==
    LET s == slots[h] IN
    /\ s.pc = "wallet_change_retry_update"
    /\ users' = [users EXCEPT ![s.user_id].wallet_pending = NULL,
                              ![s.user_id].state = "AWAIT_WALLET_CHANGE"]
    /\ finish(h, "Enter your NEW BSC wallet address again:")
    /\ UNCHANGED <<ledger, submissions, recipe_fingerprints, pending_rewards, now_ts, history>>

(***************************************************************************)
(* on_any_text: the Connect Wallet menu entry (bot.py:590-619) and the     *)
(* wallet input (bot.py:973-1014).                                         *)
(***************************************************************************)
\* connect_wallet: row = get_user(user_id); if row["wallet_address"]: ...
connect_wallet_get_user(h) ==
    LET s == slots[h] IN
    /\ s.pc = "connect_wallet_get_user"
    /\ IF users[s.user_id].wallet_address # NULL
       THEN finish(h, "Wallet already registered. Need to change it?")
       ELSE goto(h, s, "connect_wallet_set_state")
    /\ UNCHANGED <<tables, now_ts, history>>

\* set_state(user_id, "AWAIT_WALLET")
connect_wallet_set_state(h) ==
    LET s == slots[h] IN
    /\ s.pc = "connect_wallet_set_state"
    /\ users' = set_state(users, s.user_id, "AWAIT_WALLET")
    /\ finish(h, "Enter your BSC wallet address:")
    /\ UNCHANGED <<ledger, submissions, recipe_fingerprints, pending_rewards, now_ts, history>>

\* UPDATE users SET wallet_pending = ? WHERE user_id = ?   (state AWAIT_WALLET)
await_wallet_update(h) ==
    LET s == slots[h] IN
    /\ s.pc = "await_wallet_update"
    /\ users' = [users EXCEPT ![s.user_id].wallet_pending = s.data]
    /\ finish(h, "Please confirm your wallet address")
    /\ UNCHANGED <<ledger, submissions, recipe_fingerprints, pending_rewards, now_ts, history>>

\* UPDATE users SET wallet_pending = ? WHERE user_id = ?   (state AWAIT_WALLET_CHANGE)
await_wallet_change_update(h) ==
    LET s == slots[h] IN
    /\ s.pc = "await_wallet_change_update"
    /\ users' = [users EXCEPT ![s.user_id].wallet_pending = s.data]
    /\ finish(h, "Please confirm your NEW wallet address")
    /\ UNCHANGED <<ledger, submissions, recipe_fingerprints, pending_rewards, now_ts, history>>

(***************************************************************************)
(* on_any_text: the Bonus, Balance and Chat menu entries (bot.py:550-587,  *)
(* 622-645, 510-522).                                                      *)
(***************************************************************************)
\* has_wallet(user_id)
has_wallet(tbl, user_id) ==
    user_id \in DOMAIN tbl /\ tbl[user_id].wallet_address # NULL

bonus_has_wallet(h) ==
    LET s == slots[h] IN
    /\ s.pc = "bonus_has_wallet"
    /\ IF has_wallet(users, s.user_id)
       THEN finish(h, "Bonus Missions")
       ELSE finish(h, CONNECT_FIRST)
    /\ UNCHANGED <<tables, now_ts, history>>

balance_has_wallet(h) ==
    LET s == slots[h] IN
    /\ s.pc = "balance_has_wallet"
    /\ IF has_wallet(users, s.user_id)
       THEN finish(h, "Balance")
       ELSE finish(h, CONNECT_FIRST)
    /\ UNCHANGED <<tables, now_ts, history>>

ai_chat_start_set_state(h) ==
    LET s == slots[h] IN
    /\ s.pc = "ai_chat_start_set_state"
    /\ users' = set_state(users, s.user_id, "AI_CHAT")
    /\ finish(h, "Recipe AI Chat")
    /\ UNCHANGED <<ledger, submissions, recipe_fingerprints, pending_rewards, now_ts, history>>

(***************************************************************************)
(* on_callback, data "mission:<id>" (bot.py:729-761).                      *)
(***************************************************************************)
\* set_state(user_id, f"MISSION:{mission_id}")
mission_set_state(h) ==
    LET s == slots[h] IN
    /\ s.pc = "mission_set_state"
    /\ users' = set_state(users, s.user_id, "MISSION:" \o s.mission_id)
    /\ finish(h, "(prompt of the mission)")
    /\ UNCHANGED <<ledger, submissions, recipe_fingerprints, pending_rewards, now_ts, history>>

(***************************************************************************)
(* on_any_text, state "MISSION:<id>" (bot.py:1017-1093).                   *)
(***************************************************************************)
SAVED_LATER == "Saved. Your points will be credited after verification."
SAVED_SCHEDULED == "Saved. (reward already scheduled)"
SAVED_POINTS == "Saved. +points!"
SAVED_GRANTED == "Saved. (points already granted)"
RECIPE_DUPLICATE == "This recipe looks already submitted by someone else."

\* set_state(user_id, None) for a mission the catalog does not hold
mission_unconfigured_set_state(h) ==
    LET s == slots[h] IN
    /\ s.pc = "mission_unconfigured_set_state"
    /\ users' = set_state(users, s.user_id, NULL)
    /\ finish(h, "Mission is not configured. Please try again.")
    /\ UNCHANGED <<ledger, submissions, recipe_fingerprints, pending_rewards, now_ts, history>>

(***************************************************************************)
(* normalize_recipe_text (bot.py:481-485).  A text is a sequence of         *)
(* characters; the characters are the letters a, b, A, B, the space and the *)
(* newline.                                                                  *)
(***************************************************************************)
\* A character that \s matches.
is_space(c) == c \in {" ", "\n"}

lower_char(c) == IF c = "A" THEN "a" ELSE IF c = "B" THEN "b" ELSE c

RECURSIVE lstrip(_)
lstrip(text) ==
    IF text = <<>> THEN <<>>
    ELSE IF is_space(Head(text)) THEN lstrip(Tail(text))
    ELSE text

RECURSIVE rstrip(_)
rstrip(text) ==
    IF text = <<>> THEN <<>>
    ELSE IF is_space(text[Len(text)]) THEN rstrip(SubSeq(text, 1, Len(text) - 1))
    ELSE text

\* text.strip()
strip(text) == rstrip(lstrip(text))

\* text.lower()
lower(text) == [i \in 1..Len(text) |-> lower_char(text[i])]

\* re.sub(r"\s+", " ", t)
RECURSIVE collapse_whitespace(_)
collapse_whitespace(text) ==
    IF text = <<>> THEN <<>>
    ELSE IF is_space(Head(text))
    THEN <<" ">> \o collapse_whitespace(lstrip(Tail(text)))
    ELSE <<Head(text)>> \o collapse_whitespace(Tail(text))

normalize_recipe_text_case_kept(text) == collapse_whitespace(strip(text))

normalize_recipe_text(text) == collapse_whitespace(lower(strip(text)))

\* The recipe texts the handlers receive, reduced to the characters that
\* normalize_recipe_text looks at.
characters(text) ==
    IF text = "Ingredients ... Steps ... (recipe one)" THEN <<"A", " ", "b">>
    ELSE IF text = "Ingredients ... Steps ... (recipe two)" THEN <<"b", " ", "a">>
    ELSE <<>>

\* claim_recipe_fingerprint (bot.py:488-504); the digest of a text stands
\* for the text.
claim_recipe_fingerprint(fps, mission_id, user_id, text) ==
    LET fp == normalize_recipe_text(text) IN
    IF \E f \in fps : f.mission_id = mission_id /\ f.fingerprint = fp
    THEN [ ok |-> FALSE, recipe_fingerprints |-> fps ]
    ELSE [ ok |-> TRUE,
           recipe_fingerprints |-> fps \cup
               {[mission_id |-> mission_id, fingerprint |-> fp, user_id |-> user_id]} ]

\* A call of claim_recipe_fingerprint: besides the table it updates the
\* record of the claims that succeeded.
call_claim_recipe_fingerprint(mission_id, user_id, text) ==
    LET res == claim_recipe_fingerprint(recipe_fingerprints, mission_id, user_id, text) IN
    /\ recipe_fingerprints' = res.recipe_fingerprints
    /\ claimed' = IF res.ok
                  THEN claimed \cup {[mission_id |-> mission_id, user_id |-> user_id,
                                      text |-> text]}
                  ELSE claimed

\* if not claim_recipe_fingerprint(mission_id, user_id, normalized): reply; return
on_any_text_claim_recipe_fingerprint_state_reset(h) ==
    LET s == slots[h] IN
    /\ s.pc = "claim_recipe_fingerprint"
    /\ call_claim_recipe_fingerprint(s.mission_id, s.user_id, characters(s.data))
    /\ IF claimed' # claimed
       THEN goto(h, s, "insert_submission") /\ UNCHANGED users
       ELSE finish(h, RECIPE_DUPLICATE) /\ users' = set_state(users, s.user_id, NULL)
    /\ UNCHANGED <<ledger, submissions, pending_rewards, now_ts,
                   calls, granted, ret, reported>>

on_any_text_claim_recipe_fingerprint(h) ==
    LET s == slots[h] IN
    /\ s.pc = "claim_recipe_fingerprint"
    /\ call_claim_recipe_fingerprint(s.mission_id, s.user_id, characters(s.data))
    /\ IF claimed' # claimed THEN goto(h, s, "insert_submission")
       ELSE finish(h, RECIPE_DUPLICATE)
    /\ UNCHANGED <<users, ledger, submissions, pending_rewards, now_ts,
                   calls, granted, ret, reported>>

\* INSERT INTO submissions ...; except sqlite3.IntegrityError: pass
insert_submission(subs, user_id, mission_id, payload) ==
    IF \E x \in subs : x.user_id = user_id /\ x.mission_id = mission_id
    THEN subs
    ELSE subs \cup {[user_id |-> user_id, mission_id |-> mission_id, payload |-> payload]}

on_any_text_insert_submission(h) ==
    LET s == slots[h] IN
    /\ s.pc = "insert_submission"
    /\ submissions' = insert_submission(submissions, s.user_id, s.mission_id, s.data)
    /\ goto(h, [s EXCEPT !.data = ""],
            IF get_mission(s.mission_id).delay_minutes > 0
            THEN "mission_add_pending_reward" ELSE "mission_add_points")
    /\ UNCHANGED <<users, ledger, recipe_fingerprints, pending_rewards, now_ts, history>>

\* ok, ts = add_pending_reward(user_id, mission_id, f"mission:{mission_id}", ...)
mission_add_pending_reward(h) ==
    LET s == slots[h]
        m == get_mission(s.mission_id)
        res == add_pending_reward(pending_rewards, s.user_id, s.mission_id,
                                  "mission:" \o s.mission_id, m.points,
                                  m.delay_minutes, now_ts)
    IN
    /\ s.pc = "mission_add_pending_reward"
    /\ pending_rewards' = res.pending_rewards
    /\ goto(h, [s EXCEPT !.ok = res.ok], "mission_delayed_set_state")
    /\ UNCHANGED <<users, ledger, submissions, recipe_fingerprints, now_ts, history>>

\* set_state(user_id, None) and the reply of the delayed branch
mission_delayed_set_state(h) ==
    LET s == slots[h] IN
    /\ s.pc = "mission_delayed_set_state"
    /\ users' = set_state(users, s.user_id, NULL)
    /\ finish(h, IF s.ok THEN SAVED_LATER ELSE SAVED_SCHEDULED)
    /\ UNCHANGED <<ledger, submissions, recipe_fingerprints, pending_rewards, now_ts, history>>

\* awarded = add_points_once(user_id, f"mission:{mission_id}", ...)
mission_add_points(h) ==
    LET s == slots[h] IN
    /\ s.pc = "mission_add_points"
    /\ call_add_points_once(s.user_id, "mission:" \o s.mission_id,
                            "mission:" \o s.mission_id,
                            get_mission(s.mission_id).points)
    /\ goto(h, [s EXCEPT !.ok = ret'.ok], "mission_immediate_set_state")
    /\ UNCHANGED <<users, submissions, recipe_fingerprints, pending_rewards, now_ts, reported, claimed>>

\* set_state(user_id, None) and the reply of the immediate branch
mission_immediate_set_state(h) ==
    LET s == slots[h] IN
    /\ s.pc = "mission_immediate_set_state"
    /\ users' = set_state(users, s.user_id, NULL)
    /\ finish(h, IF s.ok THEN SAVED_POINTS ELSE SAVED_GRANTED)
    /\ UNCHANGED <<ledger, submissions, recipe_fingerprints, pending_rewards, now_ts, history>>

(***************************************************************************)
(* on_callback, data == "daily_checkin" (bot.py:664-713).                  *)
(***************************************************************************)
ALREADY_CHECKED_IN == "You already checked in today."
CHECKIN_COMPLETE == "Daily check-in complete!"

\* awarded = add_points_once(user_id, f"daily_checkin:{today_str}", ...)
daily_checkin_add_points(h) ==
    LET s == slots[h] IN
    /\ s.pc = "daily_checkin_add_points"
    /\ call_add_points_once(s.user_id, daily_checkin_key(s.today_date), "daily_checkin",
                            POINT_DAILY_CHECKIN)
    /\ goto(h, [s EXCEPT !.ok = ret'.ok], "daily_checkin_compute_streak")
    /\ UNCHANGED <<users, submissions, recipe_fingerprints, pending_rewards, now_ts,
                   reported, claimed>>

\* The rules of STREAK_BONUSES that the loop over them selects for a streak.
matching_rules_reached(streak) == {rule \in STREAK_BONUSES : rule.days <= streak}

matching_rules(streak) == {rule \in STREAK_BONUSES : rule.days = streak}

\* await q.message.reply_text(... f"Current streak: {streak} day(s)." ...); return
reply_streak(h, text, streak) ==
    /\ slots' = [slots EXCEPT ![h] = idle_slot]
    /\ reply' = [user_id |-> slots[h].user_id, update |-> slots[h].update,
                 data |-> slots[h].data, text |-> text, error |-> "",
                 due |-> slots[h].due, referred_by |-> slots[h].referred_by,
                 mission_id |-> slots[h].mission_id,
                 today_date |-> slots[h].today_date, streak |-> streak]
    /\ UNCHANGED offered

\* streak = compute_streak(user_id, today_date); if not awarded: reply and
\* return; without a matching rule: reply "complete" and return
daily_checkin_compute_streak(h) ==
    LET s == slots[h]
        streak == compute_streak(ledger, s.user_id, s.today_date)
    IN
    /\ s.pc = "daily_checkin_compute_streak"
    /\ IF ~s.ok THEN reply_streak(h, ALREADY_CHECKED_IN, streak)
       ELSE IF matching_rules(streak) = {} THEN reply_streak(h, CHECKIN_COMPLETE, streak)
       ELSE goto(h, [s EXCEPT !.streak = streak], "daily_checkin_streak_bonus")
    /\ UNCHANGED <<tables, now_ts, history>>

\* for rule in STREAK_BONUSES: if streak == rule["days"]: add_points_once(...)
daily_checkin_streak_bonus(h) ==
    LET s == slots[h] IN
    /\ s.pc = "daily_checkin_streak_bonus"
    /\ \E rule \in matching_rules(s.streak) :
           call_add_points_once(s.user_id, streak_bonus_key(rule.days, s.today_date),
                                "streak_bonus", rule.points)
    /\ reply_streak(h, CHECKIN_COMPLETE, s.streak)
    /\ UNCHANGED <<users, submissions, recipe_fingerprints, pending_rewards, now_ts,
                   reported, claimed>>

(***************************************************************************)
(* The clock read by time.time(): it advances in steps of 60 seconds, at   *)
(* most MaxTicks times.                                                    *)
(***************************************************************************)
tick ==
    /\ now_ts < MaxTicks * 60
    /\ now_ts' = now_ts + 60
    /\ reply' = no_reply
    /\ UNCHANGED <<tables, slots, offered, history>>

\* Midnight in the campaign's timezone: the clock passes to the next date.
next_day ==
    /\ today(now_ts) < MaxDays
    /\ now_ts' = (today(now_ts) + 1) * 86400
    /\ reply' = no_reply
    /\ UNCHANGED <<tables, slots, offered, history>>

(***************************************************************************)
(* The wallet registry under concurrent handlers: the Connect Wallet menu  *)
(* entry, wallet texts and the five wallet buttons.                        *)
(***************************************************************************)
\* The updates of one user are handled one after the other.
serial(h) == h[2] = 1 /\ h[1] \in UserIds

receive_wallet_button(h) ==
    serial(h) /\ receive(h, "callback", "wallet")

receive_wallet_text(h) ==
    serial(h) /\ receive(h, "text", "wallet")

NextWallet ==
    \E h \in Slots :
        \/ receive_wallet_button(h)
        \/ receive_wallet_text(h)
        \/ handler_ensure_user(h)
        \/ handler_get_user(h)
        \/ process_due_rewards_select(h)
        \/ wallet_change_update(h)
        \/ wallet_confirm_select(h)
        \/ wallet_confirm_dup(h)
        \/ wallet_confirm_update(h)
        \/ wallet_confirm_register(h)
        \/ wallet_retry_update(h)
        \/ wallet_change_confirm_select(h)
        \/ wallet_change_confirm_dup(h)
        \/ wallet_change_confirm_update(h)
        \/ wallet_change_retry_update(h)
        \/ connect_wallet_get_user(h)
        \/ connect_wallet_set_state(h)
        \/ await_wallet_update(h)
        \/ await_wallet_change_update(h)

SpecWallet == Init /\ [][NextWallet]_vars


(***************************************************************************)
(* Properties of the wallet registry.                                      *)
(***************************************************************************)
has_wallet_register(user_id) == entries(ledger, user_id, "wallet_register") > 0

\* C2: no two distinct users have the same non-null active wallet address.
C2_UniqueActiveWallet ==
    \A u \in DOMAIN users : \A v \in DOMAIN users :
        (u # v /\ users[u].wallet_address # NULL)
            => users[u].wallet_address # users[v].wallet_address

\* Two users hold an active wallet each, and a confirmation has just been
\* refused by the unique index.
C2_Witness ==
    /\ \E u \in DOMAIN users : \E v \in DOMAIN users :
          u # v /\ users[u].wallet_address # NULL /\ users[v].wallet_address # NULL
    /\ \/ reply.text = ALREADY_REGISTERED
       \/ reply.error = "sqlite3.IntegrityError"

\* C3: of two users confirming the same staged address for the first time,
\* one ends with the address active and the registration award, the other
\* with a duplicate-address rejection, no active wallet and no award.  Stated
\* at the reply of a wallet_confirm handler: a success reply goes to the only
\* holder of the address, who has the award; a rejection goes to a user with
\* no wallet and no award, whose staged address is then held by another user
\* who has the award or is about to insert it.
C3_ConcurrentConfirm ==
    reply.data = "wallet_confirm" =>
        LET u == reply.user_id IN
        /\ reply.text = REGISTERED_OK =>
              /\ users[u].wallet_address # NULL
              /\ has_wallet_register(u)
              /\ \A v \in DOMAIN users :
                    v # u => users[v].wallet_address # users[u].wallet_address
        /\ reply.text \in {ALREADY_BY_ANOTHER, ALREADY_REGISTERED} =>
              /\ users[u].wallet_address = NULL
              /\ ~has_wallet_register(u)
              /\ \E v \in DOMAIN users :
                    /\ v # u
                    /\ users[v].wallet_address = users[u].wallet_pending
                    /\ \/ has_wallet_register(v)
                       \/ slots[<<v, 1>>].pc = "wallet_confirm_register"

\* The race itself: the duplicate check passed and the UPDATE was then
\* refused, while the winner has not yet been given its award.
C3_Witness ==
    /\ reply.data = "wallet_confirm"
    /\ reply.text = ALREADY_REGISTERED
    /\ \E v \in DOMAIN users :
          /\ users[v].wallet_address = users[reply.user_id].wallet_pending
          /\ slots[<<v, 1>>].pc = "wallet_confirm_register"

\* C5: each user's wallet_change_count is at most 1.
C5_ChangeCountAtMostOne ==
    \A u \in DOMAIN users : users[u].wallet_change_count <= 1


(***************************************************************************)
(* The ledger under arbitrary calls of add_points_once.                    *)
(***************************************************************************)
LedgerKeys == {"wallet_register"} \cup {"mission:" \o id : id \in MissionIds}

Amounts == {POINT_DAILY_CHECKIN, POINT_WALLET_REGISTER}

credit_once(user_id, unique_key, amount) ==
    /\ call_add_points_once(user_id, unique_key, unique_key, amount)
    /\ UNCHANGED <<users, submissions, recipe_fingerprints, pending_rewards, now_ts,
                   slots, reply, offered, reported, claimed>>

NextLedger ==
    \E user_id \in UserIds : \E unique_key \in LedgerKeys : \E amount \in Amounts :
        credit_once(user_id, unique_key, amount)

SpecLedger == Init /\ [][NextLedger]_vars

\* C1: for every user u and key k the ledger holds at most one entry, and
\* holds one exactly when add_points_once has been called with (u, k); a
\* call returns true exactly when it is the first with its (u, k); and the
\* balance of u is the sum of the amounts inserted for u.
C1_CreditOnce ==
    /\ \A u \in UserIds : \A k \in LedgerKeys :
        /\ entries(ledger, u, k) <= 1
        /\ entries(ledger, u, k) = 1 <=> <<u, k>> \in calls
    /\ ret.user_id # NoUser => (ret.ok <=> ret.first)
    /\ \A u \in UserIds : get_points(ledger, u) = granted[u]

\* A call repeated a (user, key) and was refused, and the user holds
\* entries under two keys.
C1_Witness ==
    /\ ret.user_id # NoUser
    /\ ~ret.first
    /\ ~ret.ok
    /\ entries(ledger, ret.user_id, ret.unique_key) = 1
    /\ get_points(ledger, ret.user_id) > POINT_WALLET_REGISTER

(***************************************************************************)
(* The fingerprint table under arbitrary calls of claim_recipe_fingerprint. *)
(***************************************************************************)
FingerprintMissions == {"recipe_submit", "recipe_remix"}

RecipeVariants ==
    { <<"A", "b">>, <<"a", "b">>, <<" ", "a", "b", "\n">>,
      <<"a", " ", "b">>, <<"A", " ", "\n", "B">>, <<"a", "\n", "b">> }

claim_fingerprint(mission_id, user_id, text) ==
    /\ call_claim_recipe_fingerprint(mission_id, user_id, text)
    /\ reply' = [no_reply EXCEPT !.user_id = user_id, !.mission_id = mission_id,
                                 !.data = text,
                                 !.text = IF claimed' # claimed THEN "claimed"
                                          ELSE RECIPE_DUPLICATE]
    /\ UNCHANGED <<users, ledger, submissions, pending_rewards, now_ts, slots,
                   offered, calls, granted, ret, reported>>

NextFingerprint ==
    \E mission_id \in FingerprintMissions : \E user_id \in UserIds :
        \E text \in RecipeVariants : claim_fingerprint(mission_id, user_id, text)

SpecFingerprint == Init /\ [][NextFingerprint]_vars

\* The words of a text, in lower case: two texts are equal after
\* normalization when they have the same words.
RECURSIVE words(_)
words(text) ==
    LET t == lstrip(text)
        ends == {i \in 1..Len(t) : is_space(t[i])}
        n == IF ends = {} THEN Len(t) + 1
             ELSE CHOOSE i \in ends : \A j \in ends : i <= j
    IN  IF t = <<>> THEN <<>>
        ELSE <<[i \in 1..(n - 1) |-> lower_char(t[i])]>>
                 \o words(SubSeq(t, n, Len(t)))

same_content(t1, t2) == words(t1) = words(t2)

owners(mission_id, text) ==
    {c \in claimed : c.mission_id = mission_id /\ same_content(c.text, text)}

\* C12: per mission, texts that are equal after normalization are claimed
\* by at most one user, whose fingerprint row stays; a claim is rejected
\* only if a claim of an equal text succeeded for the same mission, so the
\* same text under another mission id is accepted; and a claim that is
\* accepted makes the claimant the owner.
C12_OneOwnerPerContent ==
    /\ \A c1 \in claimed : \A c2 \in claimed :
        (c1.mission_id = c2.mission_id /\ same_content(c1.text, c2.text)) => c1 = c2
    /\ \A c \in claimed :
        [mission_id |-> c.mission_id, fingerprint |-> normalize_recipe_text(c.text),
         user_id |-> c.user_id] \in recipe_fingerprints
    /\ \A f \in recipe_fingerprints : \A g \in recipe_fingerprints :
        (f.mission_id = g.mission_id /\ f.fingerprint = g.fingerprint) => f = g
    /\ reply.text = RECIPE_DUPLICATE => owners(reply.mission_id, reply.data) # {}
    /\ reply.text = "claimed" =>
        owners(reply.mission_id, reply.data) =
            {[mission_id |-> reply.mission_id, user_id |-> reply.user_id,
              text |-> reply.data]}

\* A second user's claim of a text in other capitals and whitespace has
\* been rejected, after the same user had claimed a text of the same
\* content under the other mission id.
C12_Witness ==
    /\ reply.text = RECIPE_DUPLICATE
    /\ \E c \in owners(reply.mission_id, reply.data) :
        c.user_id # reply.user_id /\ c.text # reply.data
    /\ \E c \in claimed :
        /\ c.mission_id # reply.mission_id
        /\ c.user_id = reply.user_id
        /\ same_content(c.text, reply.data)

(***************************************************************************)
(* Referral and first registration: users open the bot, with or without a  *)
(* referral link; the last of them stages an address and presses the       *)
(* confirm button, also in two updates handled at the same time.           *)
(***************************************************************************)
referred(h) == h[1] = NUsers

receive_referral_start(h) ==
    serial(h) /\ receive(h, "start", "referral")

receive_first_wallet_text(h) ==
    referred(h) /\ serial(h) /\ receive(h, "text", "first_wallet")

receive_first_wallet_button(h) ==
    referred(h) /\ receive(h, "callback", "first_wallet")

NextReferral ==
    \E h \in Slots :
        \/ receive_referral_start(h)
        \/ receive_first_wallet_text(h)
        \/ receive_first_wallet_button(h)
        \/ handler_ensure_user(h)
        \/ start_find_user_by_ref_code(h)
        \/ set_referred_by_if_empty_select(h)
        \/ set_referred_by_if_empty_update(h)
        \/ handler_get_user(h)
        \/ process_due_rewards_select(h)
        \/ connect_wallet_get_user(h)
        \/ connect_wallet_set_state(h)
        \/ await_wallet_update(h)
        \/ wallet_confirm_select(h)
        \/ wallet_confirm_dup(h)
        \/ wallet_confirm_update(h)
        \/ wallet_confirm_register(h)
        \/ wallet_confirm_referral(h)
        \/ wallet_retry_update(h)

SpecReferral == Init /\ [][NextReferral]_vars

referral_key(user_id) == "referral:" \o ToString(user_id)

\* C4: however often and however concurrently a user confirms, the user has
\* at most one wallet_register entry and every referrer at most one referral
\* entry for the user; a confirmation that answers with success leaves the
\* wallet active, exactly one wallet_register entry and, if it read a
\* referrer, exactly one referral entry in the referrer's ledger; one that
\* answers that the wallet is already registered leaves the wallet active.
C4_ConfirmIdempotent ==
    /\ \A u \in UserIds :
        /\ entries(ledger, u, "wallet_register") <= 1
        /\ \A r \in UserIds : entries(ledger, r, referral_key(u)) <= 1
    /\ (reply.data = "wallet_confirm" /\ reply.text = REGISTERED_OK) =>
        /\ users[reply.user_id].wallet_address # NULL
        /\ entries(ledger, reply.user_id, "wallet_register") = 1
        /\ reply.referred_by # NoUser =>
            entries(ledger, reply.referred_by, referral_key(reply.user_id)) = 1
    /\ (reply.data = "wallet_confirm" /\ reply.text = "Wallet already registered.") =>
        users[reply.user_id].wallet_address # NULL

\* The second of two concurrent confirmations of a referred user has
\* finished: both its awards were refused, each is in the ledger once.
C4_Witness ==
    /\ reply.data = "wallet_confirm"
    /\ reply.text = REGISTERED_OK
    /\ reply.referred_by # NoUser
    /\ ret.unique_key = referral_key(reply.user_id)
    /\ ~ret.ok
    /\ entries(ledger, reply.user_id, "wallet_register") = 1
    /\ entries(ledger, reply.referred_by, referral_key(reply.user_id)) = 1

(***************************************************************************)
(* Missions: a user registers a wallet, opens the Bonus menu, presses      *)
(* mission buttons and sends submissions, while the clock advances.        *)
(***************************************************************************)
single(h) == h = <<1, 1>>

receive_mission_button(h) ==
    single(h) /\ receive(h, "callback", "mission")

receive_mission_text(h) ==
    single(h) /\ receive(h, "text", "mission")

receive_mission_start(h) ==
    single(h) /\ receive(h, "start", "mission")

NextMission ==
    \/ tick
    \/ \E h \in Slots :
        \/ receive_mission_button(h)
        \/ receive_mission_text(h)
        \/ receive_mission_start(h)
        \/ handler_ensure_user(h)
        \/ handler_get_user(h)
        \/ process_due_rewards_select(h)
        \/ process_due_rewards_add_points(h)
        \/ process_due_rewards_delete(h)
        \/ connect_wallet_get_user(h)
        \/ connect_wallet_set_state(h)
        \/ await_wallet_update(h)
        \/ wallet_confirm_select(h)
        \/ wallet_confirm_dup(h)
        \/ wallet_confirm_update(h)
        \/ wallet_confirm_register(h)
        \/ bonus_has_wallet(h)
        \/ mission_set_state(h)
        \/ on_any_text_claim_recipe_fingerprint(h)
        \/ on_any_text_insert_submission(h)
        \/ mission_add_pending_reward(h)
        \/ mission_delayed_set_state(h)
        \/ mission_add_points(h)
        \/ mission_immediate_set_state(h)

SpecMission == Init /\ [][NextMission]_vars


pending_of(user_id, mission_id) ==
    {p \in pending_rewards : p.user_id = user_id /\ p.mission_id = mission_id}

mission_entries(user_id, mission_id) ==
    entries(ledger, user_id, "mission:" \o mission_id)

\* C6: for every user and mission, immediate or delayed, the ledger holds at
\* most one entry with key mission:<mission id>, whatever buttons were
\* pressed and whatever was submitted, resubmitted and settled.
C6_OncePerMission ==
    \A u \in UserIds : \A m \in MissionIds : mission_entries(u, m) <= 1

\* A resubmission of a mission that had been paid was answered.
C6_Witness ==
    /\ reply.text = SAVED_GRANTED
    /\ mission_entries(reply.user_id, "x_follow") = 1

C8_NextInteractionSettles ==
    (reply.user_id # NoUser /\ reply.update \in {"callback", "text"}) =>
        \A p \in reply.due :
            /\ mission_entries(reply.user_id, p.mission_id) = 1
            /\ pending_of(reply.user_id, p.mission_id) = {}

\* C9: when an update of any kind has been handled, every reward that was
\* eligible when it arrived has been credited.
C9_EveryInteractionSettles ==
    reply.user_id # NoUser =>
        \A p \in reply.due : mission_entries(reply.user_id, p.mission_id) >= 1

\* C11: a user is told that the points will be credited later only for a
\* schedule that leads to a credit, so never for a mission the ledger
\* already holds: per (user, mission) only one pending row is ever created.
C11_ScheduledOnce ==
    reply.text = SAVED_LATER =>
        mission_entries(reply.user_id, reply.mission_id) = 0

\* C13: a submission is rejected as already submitted by someone else only
\* when a different user holds the fingerprint of its content for the
\* mission.
C13_RejectedOnlyForOthers ==
    (reply.text = RECIPE_DUPLICATE /\ reply.update = "text") =>
        \E f \in recipe_fingerprints :
            /\ f.mission_id = reply.mission_id
            /\ f.fingerprint = normalize_recipe_text(characters(reply.data))
            /\ f.user_id # reply.user_id

(***************************************************************************)
(* Settlement under concurrency: while a user goes through the missions, a *)
(* second update of the same user is handled at the same time, and a       *)
(* settlement may be interrupted between its credit and its delete.        *)
(***************************************************************************)
receive_delayed_button(h) ==
    single(h) /\ receive(h, "callback", "delayed")

receive_delayed_text(h) ==
    single(h) /\ receive(h, "text", "delayed")

receive_settle_text(h) ==
    h = <<1, 2>> /\ receive(h, "text", "settle")

NextSettle ==
    \/ tick
    \/ \E h \in Slots :
        \/ receive_delayed_button(h)
        \/ receive_delayed_text(h)
        \/ receive_settle_text(h)
        \/ handler_ensure_user(h)
        \/ handler_get_user(h)
        \/ process_due_rewards_select(h)
        \/ process_due_rewards_add_points(h)
        \/ process_due_rewards_delete(h)
        \/ process_due_rewards_interrupted(h)
        \/ connect_wallet_get_user(h)
        \/ connect_wallet_set_state(h)
        \/ await_wallet_update(h)
        \/ wallet_confirm_select(h)
        \/ wallet_confirm_dup(h)
        \/ wallet_confirm_update(h)
        \/ wallet_confirm_register(h)
        \/ bonus_has_wallet(h)
        \/ mission_set_state(h)
        \/ on_any_text_claim_recipe_fingerprint(h)
        \/ on_any_text_insert_submission(h)
        \/ mission_add_pending_reward(h)
        \/ mission_delayed_set_state(h)

SpecSettle == Init /\ [][NextSettle]_vars

\* C10: with settlements of one user running concurrently or interrupted
\* and run again, the ledger holds at most one entry per delayed reward, at
\* most one run reports it as newly credited, and a run that has finished
\* leaves none of the rows that were eligible when its update arrived.
C10_SettleOnce ==
    /\ \A u \in UserIds : \A m \in DelayedMissionIds :
        /\ mission_entries(u, m) <= 1
        /\ CopiesIn(<<u, m>>, reported) <= 1
    /\ (reply.user_id # NoUser /\ reply.update \in {"callback", "text"}) =>
            reply.due \cap pending_rewards = {}

\* Two settlements took the same row: the second found the reward credited
\* and the row already deleted by the first.
C10_Witness ==
    \E h \in Slots :
        /\ slots[h].pc = "process_due_rewards_delete"
        /\ ~slots[h].ok
        /\ slots[h].r \notin pending_rewards
        /\ CopiesIn(<<slots[h].user_id, slots[h].r.mission_id>>, reported) = 1

\* A settlement that ran again after an interrupted one has finished: the
\* reward it found eligible is in the ledger, no run reported it, and the row
\* is gone.
C10_WitnessInterrupted ==
    /\ reply.user_id # NoUser
    /\ \A h \in Slots : slots[h].pc = "done"
    /\ \E p \in reply.due :
        /\ mission_entries(reply.user_id, p.mission_id) = 1
        /\ CopiesIn(<<reply.user_id, p.mission_id>>, reported) = 0
        /\ p \notin pending_rewards

(***************************************************************************)
(* Daily check-ins over several dates: user 1 registers a wallet and       *)
(* presses the check-in button, in two handlers that may run concurrently. *)
(* Telegram delivers the callback data of any button a client presses, so  *)
(* the check-in button is pressed with or without a wallet.                *)
(***************************************************************************)
receive_checkin_text(h) ==
    single(h) /\ receive(h, "text", "checkin")

receive_checkin_confirm(h) ==
    single(h) /\ receive(h, "callback", "checkin")

receive_checkin_button(h) ==
    /\ h[1] = 1
    /\ slots[h].pc = "done"
    /\ slots' = [slots EXCEPT ![h] =
                    [idle_slot EXCEPT !.pc = "ensure_user", !.update = "callback",
                                      !.inputs = "checkin", !.user_id = h[1],
                                      !.buttons = {"daily_checkin"}]]
    /\ reply' = no_reply
    /\ UNCHANGED <<tables, now_ts, offered, history>>

NextCheckin ==
    \/ next_day
    \/ \E h \in Slots :
        \/ receive_checkin_text(h)
        \/ receive_checkin_confirm(h)
        \/ receive_checkin_button(h)
        \/ handler_ensure_user(h)
        \/ handler_get_user(h)
        \/ process_due_rewards_select(h)
        \/ connect_wallet_get_user(h)
        \/ connect_wallet_set_state(h)
        \/ await_wallet_update(h)
        \/ wallet_confirm_select(h)
        \/ wallet_confirm_dup(h)
        \/ wallet_confirm_update(h)
        \/ wallet_confirm_register(h)
        \/ daily_checkin_add_points(h)
        \/ daily_checkin_compute_streak(h)
        \/ daily_checkin_streak_bonus(h)

SpecCheckin == Init /\ [][NextCheckin]_vars

\* The dates on which the ledger of user_id holds a check-in entry.
checked_in(user_id) ==
    {d \in Days : entries(ledger, user_id, daily_checkin_key(d)) > 0}

\* The length of the longest run of consecutive dates ending at d, all in dates.
run_length(dates, d) ==
    Cardinality({n \in 1..(d + 1) : \A i \in 0..(n - 1) : (d - i) \in dates})

\* C14: for every user and every date, compute_streak is the length of the
\* longest run of consecutive dates ending at that date that all have a
\* check-in entry of the user: 0 when the date itself has none, N after N
\* check-ins on consecutive dates, and only the check-ins after the last
\* missed date otherwise.
C14_StreakIsRunLength ==
    \A u \in UserIds : \A d \in Days :
        LET streak == compute_streak(ledger, u, d) IN
        /\ streak = run_length(checked_in(u), d)
        /\ d \notin checked_in(u) => streak = 0
        /\ (\A e \in 0..d : e \in checked_in(u)) => streak = d + 1
        /\ \A g \in 0..d :
               (g \notin checked_in(u) /\ \A e \in (g + 1)..d : e \in checked_in(u))
                   => streak = d - g

\* User 1 checked in on the first date, missed the second and checked in on
\* the two dates after it: the streak at the last date is 2.
C14_Witness ==
    /\ checked_in(1) = {0, 2, 3}
    /\ compute_streak(ledger, 1, 3) = 2
    /\ compute_streak(ledger, 1, 1) = 0
    /\ compute_streak(ledger, 1, 0) = 1

\* The ledger rows of the streak bonus of rule for user_id on date d.
bonus_rows(user_id, rule, d) ==
    ledger_rows(ledger, user_id, streak_bonus_key(rule.days, d))

\* C15: a check-in that finds the streak at exactly a configured threshold k
\* on date d leaves exactly one bonus entry of (user, k, d), with the
\* configured amount, and a check-in that finds any other streak leaves
\* none; no later or concurrent press of the button on date d adds a second
\* daily entry or a second bonus entry.
C15_BonusExactlyOnce ==
    /\ \A u \in UserIds : \A d \in Days :
        /\ entries(ledger, u, daily_checkin_key(d)) <= 1
        /\ \A rule \in STREAK_BONUSES :
            /\ entries(ledger, u, streak_bonus_key(rule.days, d)) <= 1
            /\ \A r \in bonus_rows(u, rule, d) :
                /\ r.type = "streak_bonus"
                /\ r.amount = rule.points
                /\ d \in checked_in(u)
    /\ reply.text = CHECKIN_COMPLETE =>
        \A rule \in STREAK_BONUSES :
            entries(ledger, reply.user_id, streak_bonus_key(rule.days, reply.today_date))
                = IF rule.days = reply.streak THEN 1 ELSE 0
    /\ reply.text = ALREADY_CHECKED_IN =>
        /\ entries(ledger, reply.user_id, daily_checkin_key(reply.today_date)) = 1
        /\ ret.unique_key = daily_checkin_key(reply.today_date) => ~ret.ok

\* The streak bonus of 3 days was granted on a date, and the button was
\* pressed again on that date.
C15_Witness ==
    /\ reply.text = ALREADY_CHECKED_IN
    /\ reply.streak = 3
    /\ \E rule \in STREAK_BONUSES :
        /\ rule.days = 3
        /\ entries(ledger, reply.user_id, streak_bonus_key(3, reply.today_date)) = 1

\* The handler of slot h ends in this step with the message text.
replies(h, text) ==
    /\ slots[h].pc # "done"
    /\ slots'[h].pc = "done"
    /\ reply'.user_id = slots[h].user_id
    /\ reply'.text = text

\* A step of the check-in branch of slot h, after its wallet check.
checkin_step(h) ==
    /\ slots[h].pc \in {"daily_checkin_add_points", "daily_checkin_compute_streak",
                        "daily_checkin_streak_bonus"}
    /\ slots'[h] # slots[h]

\* C16: a daily entry is held only by users with an active wallet, at most
\* one per user and date; the check-in of a user without a wallet is
\* answered "connect your wallet first" and writes nothing; the check-in of a
\* user who already has the entry of the date is answered with the current
\* streak and none of its steps changes the ledger.
C16_CheckinGuarded ==
    /\ [](\A u \in UserIds : \A d \in Days :
            /\ entries(ledger, u, daily_checkin_key(d)) <= 1
            /\ d \in checked_in(u) =>
                   (u \in DOMAIN users /\ users[u].wallet_address # NULL))
    /\ [](reply.text = ALREADY_CHECKED_IN =>
            /\ reply.streak = compute_streak(ledger, reply.user_id, reply.today_date)
            /\ reply.streak >= 1)
    /\ [][\A h \in Slots :
            /\ (slots[h].buttons = {"daily_checkin"} /\ slots[h].user_row # NoRow
                  /\ slots'[h] # slots[h])
                   => /\ tables' = tables
                      /\ IF slots[h].user_row.wallet_address = NULL
                         THEN replies(h, CONNECT_FIRST)
                         ELSE slots'[h].pc = "daily_checkin_add_points"
            /\ (checkin_step(h)
                  /\ slots[h].today_date \in checked_in(slots[h].user_id)
                  /\ slots[h].pc = "daily_checkin_add_points")
                   => (ledger' = ledger /\ ~slots'[h].ok)
            /\ (checkin_step(h) /\ ~slots[h].ok
                  /\ slots[h].pc = "daily_checkin_compute_streak")
                   => (replies(h, ALREADY_CHECKED_IN) /\ tables' = tables)
         ]_vars

\* A press of the button that read the user's row before the wallet was
\* registered is answered "connect first"; the user's last press before
\* that answer found the entry of the date in the ledger.
C16_Witness ==
    /\ reply.text = CONNECT_FIRST
    /\ reply.data = "daily_checkin"
    /\ ret.unique_key = daily_checkin_key(today(now_ts))
    /\ ~ret.ok
    /\ entries(ledger, reply.user_id, ret.unique_key) = 1

(***************************************************************************)
(* Every kind of ledger entry in one run: user 1 starts with a referral    *)
(* code, registers a wallet, submits an immediate mission and checks in on *)
(* several dates; the other users only start.  One handler per user.       *)
(***************************************************************************)
receive_keys_start(h) ==
    serial(h) /\ receive(h, "start", IF single(h) THEN "referral" ELSE "keys")

receive_keys_text(h) ==
    single(h) /\ receive(h, "text", "keys")

receive_keys_button(h) ==
    single(h) /\ receive(h, "callback", "keys")

NextKeys ==
    \/ next_day
    \/ \E h \in Slots :
        \/ receive_keys_start(h)
        \/ receive_keys_text(h)
        \/ receive_keys_button(h)
        \/ handler_ensure_user(h)
        \/ start_find_user_by_ref_code(h)
        \/ set_referred_by_if_empty_select(h)
        \/ set_referred_by_if_empty_update(h)
        \/ handler_get_user(h)
        \/ process_due_rewards_select(h)
        \/ connect_wallet_get_user(h)
        \/ connect_wallet_set_state(h)
        \/ await_wallet_update(h)
        \/ wallet_confirm_select(h)
        \/ wallet_confirm_dup(h)
        \/ wallet_confirm_update(h)
        \/ wallet_confirm_register(h)
        \/ wallet_confirm_referral(h)
        \/ bonus_has_wallet(h)
        \/ mission_set_state(h)
        \/ on_any_text_insert_submission(h)
        \/ mission_add_points(h)
        \/ mission_immediate_set_state(h)
        \/ daily_checkin_add_points(h)
        \/ daily_checkin_compute_streak(h)
        \/ daily_checkin_streak_bonus(h)

SpecKeys == Init /\ [][NextKeys]_vars

\* The types of the ledger rows of one-time missions.
MissionTypes == {"mission:" \o id : id \in MissionIds}

\* Every ledger row has the key of its type, with the given prefixes for
\* the daily check-in and the streak bonus; a referral row lies in the
\* ledger of the referrer of the user its key names; and the entry an
\* answered check-in or mission submission grants is found under that key.
key_conventions(checkin, streak) ==
    /\ \A r \in BagToSet(ledger) :
        /\ r.type \in {"wallet_register", "daily_checkin", "streak_bonus",
                       "referral_wallet_connected"} \cup MissionTypes
        /\ r.type = "wallet_register" => r.unique_key = "wallet_register"
        /\ r.type = "daily_checkin" =>
               \E d \in Days : r.unique_key = checkin \o strftime(d)
        /\ r.type = "streak_bonus" =>
               \E d \in Days : \E rule \in STREAK_BONUSES :
                   r.unique_key = streak \o ToString(rule.days) \o ":" \o strftime(d)
        /\ r.type \in MissionTypes => r.unique_key = r.type
        /\ r.type = "referral_wallet_connected" =>
               \E u \in DOMAIN users :
                   /\ r.unique_key = "referral:" \o ToString(u)
                   /\ users[u].referred_by = r.user_id
    /\ reply.text = CHECKIN_COMPLETE =>
        /\ entries(ledger, reply.user_id, checkin \o strftime(reply.today_date)) = 1
        /\ \A rule \in STREAK_BONUSES :
               rule.days = reply.streak =>
                   entries(ledger, reply.user_id,
                           streak \o ToString(rule.days) \o ":"
                               \o strftime(reply.today_date)) = 1
    /\ reply.text = SAVED_POINTS =>
        entries(ledger, reply.user_id, "mission:" \o reply.mission_id) = 1
    /\ (reply.text = REGISTERED_OK /\ reply.referred_by # NoUser) =>
        entries(ledger, reply.referred_by, "referral:" \o ToString(reply.user_id)) = 1

ConfirmSteps ==
    {"wallet_confirm_dup", "wallet_confirm_update", "wallet_change_confirm_dup",
     "wallet_change_confirm_update"}

receive_plain_start(h) ==
    serial(h) /\ receive(h, "start", "plain")

receive_invitee_start(h) ==
    h[1] = Invitee /\ receive(h, "start", "invitee")

NextStart ==
    \E h \in Slots :
        \/ receive_plain_start(h)
        \/ receive_invitee_start(h)
        \/ handler_ensure_user(h)
        \/ start_find_user_by_ref_code(h)
        \/ set_referred_by_if_empty_select(h)
        \/ set_referred_by_if_empty_update(h)

SpecStart == Init /\ [][NextStart]_vars

\* C19: a user's referred_by is never the user's own id, and once it is
\* non-null no step changes it, whatever start actions run or interleave.
C19_ReferrerSetOnce ==
    /\ [](\A u \in DOMAIN users : users[u].referred_by # u)
    /\ [][\A u \in DOMAIN users :
             users[u].referred_by # NoUser =>
                 users'[u].referred_by = users[u].referred_by]_vars

\* get_referral_counts: the users referred by referrer_id, and those of them
\* with a wallet address
\* SELECT COUNT(*) FROM users WHERE referred_by = ? [AND wallet_address IS NOT NULL]
get_referral_counts(tbl, referrer_id) ==
    LET invited == {u \in DOMAIN tbl : tbl[u].referred_by = referrer_id}
        qualified == {u \in invited : tbl[u].wallet_address # NULL}
    IN  [invited |-> Cardinality(invited), qualified |-> Cardinality(qualified)]

\* No handler is in progress.
quiescent == \A h \in Slots : slots[h].pc = "done"

\* C20: when no handler is in progress, the ledger of every referrer r holds
\* exactly one entry referral:<u> for every user u that has referrer r and
\* an active wallet, so as many referral entries as get_referral_counts
\* counts qualified referrals.
C20_QualifiedReferralCredited ==
    quiescent =>
        \A r \in UserIds :
            /\ \A u \in DOMAIN users :
                   (users[u].referred_by = r /\ users[u].wallet_address # NULL)
                       => entries(ledger, r, referral_key(u)) = 1
            /\ Cardinality({u \in UserIds : entries(ledger, r, referral_key(u)) > 0})
                   = get_referral_counts(users, r).qualified

\* The handler of slot h answers in this step that the wallet was updated.
change_confirmed(h) ==
    /\ slots[h].data = "wallet_change_confirm"
    /\ replies(h, UPDATED_OK)

\* C21: the step in which a wallet-change confirmation succeeds makes the
\* pending address the active one, clears wallet_pending and the state,
\* raises the user's wallet_change_count by exactly one, changes no other
\* user's row and no ledger, and grants no points.
C21_ChangeGrantsNothing ==
    [][\A h \in Slots :
          change_confirmed(h) =>
              LET u == slots[h].user_id IN
              /\ users[u].wallet_pending # NULL
              /\ users'[u].wallet_address = users[u].wallet_pending
              /\ users'[u].wallet_address # users[u].wallet_address
              /\ users'[u].wallet_pending = NULL
              /\ users'[u].state = NULL
              /\ users'[u].wallet_change_count = users[u].wallet_change_count + 1
              /\ \A v \in DOMAIN users : v # u => users'[v] = users[v]
              /\ ledger' = ledger
              /\ granted' = granted
              /\ \A v \in DOMAIN users : get_points(ledger', v) = get_points(ledger, v)
      ]_vars

\* A user holding the registration award has changed the wallet: the new
\* address is active, the counter is 1 and the balance is still the award.
C21_Witness ==
    /\ reply.text = UPDATED_OK
    /\ users[reply.user_id].wallet_change_count = 1
    /\ users[reply.user_id].wallet_pending = NULL
    /\ users[reply.user_id].state = NULL
    /\ get_points(ledger, reply.user_id) = POINT_WALLET_REGISTER

\* C22: a step gives a user an active address only if the user had none
\* (first-time confirmation) or through a change confirmation taken while
\* the user's state is AWAIT_WALLET_CHANGE; an existing active address is
\* replaced by a different one only in the latter way.
C22_ReplacedOnlyInChangeMode ==
    [][\A u \in DOMAIN users :
          users'[u].wallet_address # users[u].wallet_address =>
              \E h \in Slots :
                  /\ slots[h].user_id = u
                  /\ slots'[h] # slots[h]
                  /\ IF users[u].wallet_address = NULL
                     THEN slots[h].data = "wallet_confirm"
                     ELSE /\ slots[h].data = "wallet_change_confirm"
                          /\ users[u].state = "AWAIT_WALLET_CHANGE"
      ]_vars

\* C23: when the address of a change confirmation became the active address
\* of another user after the confirmation's duplicate check, the step that
\* runs its UPDATE ends the handler with a duplicate-address message, not
\* with an exception, and leaves the user's wallet and wallet_change_count
\* as they were.
C23_ChangeRaceRejected ==
    [][\A h \in Slots :
          (/\ slots[h].pc = "wallet_change_confirm_update"
           /\ slots'[h] # slots[h]
           /\ wallet_dup(users, slots[h].pending, slots[h].user_id))
              => LET u == slots[h].user_id IN
                 /\ replies(h, ALREADY_BY_ANOTHER) \/ replies(h, ALREADY_REGISTERED)
                 /\ reply'.error = ""
                 /\ users'[u].wallet_address = users[u].wallet_address
                 /\ users'[u].wallet_change_count = users[u].wallet_change_count
      ]_vars

(***************************************************************************)
(* The conversation of one user, one update after the other: every wallet  *)
(* and mission input, a text that passes no validation ("hello"), and the  *)
(* button of a mission that the catalog no longer holds, left in the chat  *)
(* by a message sent under an earlier catalog.                             *)
(***************************************************************************)
receive_conversation_text(h) ==
    single(h) /\ receive(h, "text", "conversation")

receive_conversation_button(h) ==
    single(h) /\ receive(h, "callback", "conversation")

receive_retired_button(h) ==
    /\ single(h)
    /\ slots[h].pc = "done"
    /\ slots' = [slots EXCEPT ![h] =
                    [idle_slot EXCEPT !.pc = "ensure_user", !.update = "callback",
                                      !.inputs = "conversation", !.user_id = h[1],
                                      !.buttons = {"mission:retired"},
                                      !.due = eligible(pending_rewards, h[1], now_ts)]]
    /\ reply' = no_reply
    /\ UNCHANGED <<tables, now_ts, offered, history>>

NextConversation ==
    \/ tick
    \/ \E h \in Slots :
        \/ receive_conversation_text(h)
        \/ receive_conversation_button(h)
        \/ receive_retired_button(h)
        \/ handler_ensure_user(h)
        \/ handler_get_user(h)
        \/ process_due_rewards_select(h)
        \/ process_due_rewards_add_points(h)
        \/ process_due_rewards_delete(h)
        \/ connect_wallet_get_user(h)
        \/ connect_wallet_set_state(h)
        \/ await_wallet_update(h)
        \/ await_wallet_change_update(h)
        \/ wallet_change_update(h)
        \/ wallet_confirm_select(h)
        \/ wallet_confirm_dup(h)
        \/ wallet_confirm_update(h)
        \/ wallet_confirm_register(h)
        \/ wallet_retry_update(h)
        \/ wallet_change_confirm_select(h)
        \/ wallet_change_confirm_dup(h)
        \/ wallet_change_confirm_update(h)
        \/ wallet_change_retry_update(h)
        \/ bonus_has_wallet(h)
        \/ mission_set_state(h)
        \/ on_any_text_claim_recipe_fingerprint(h)
        \/ on_any_text_insert_submission(h)
        \/ mission_add_pending_reward(h)
        \/ mission_delayed_set_state(h)
        \/ mission_add_points(h)
        \/ mission_immediate_set_state(h)

SpecConversation == Init /\ [][NextConversation]_vars

\* The answers to an accepted mission submission.
SAVED == {SAVED_POINTS, SAVED_GRANTED, SAVED_LATER, SAVED_SCHEDULED}

\* C24: when a handler answers that a wallet was registered or updated, the
\* user's state and wallet_pending are NULL; when it answers that a mission
\* submission was saved (points granted now, already granted, scheduled or
\* already scheduled), the user's state is NULL.
C24_StateResetOnSuccess ==
    /\ reply.text \in {REGISTERED_OK, UPDATED_OK} =>
        /\ users[reply.user_id].state = NULL
        /\ users[reply.user_id].wallet_pending = NULL
        /\ users[reply.user_id].wallet_address # NULL
    /\ reply.text \in SAVED =>
        users[reply.user_id].state = NULL

\* After a first-time and a change confirmation, a second submission of an
\* immediate mission is answered "already granted" and the state is NULL.
C24_Witness ==
    /\ reply.text = SAVED_GRANTED
    /\ users[reply.user_id].wallet_change_count = 1
    /\ users[reply.user_id].state = NULL


\* The handler of slot h answers a text with a validation error in this step.
validation_fails(h) ==
    /\ slots[h].update = "text"
    /\ replies(h, WALLET_INCORRECT) \/ replies(h, VALIDATION_ERROR)

\* C25: the step in which a text is answered with a validation error, which
\* is the step that ends process_due_rewards, writes nothing but the
\* settlement's own DELETE: users (state, wallet_pending, wallet_address),
\* ledger, submissions and fingerprints are unchanged and no pending reward
\* is added.  The error is given only to a text that fails the validation of
\* the state the user is in, and the user stays in that state.
C25_ValidationErrorKeepsState ==
    [][\A h \in Slots :
          validation_fails(h) =>
              LET u == slots[h].user_id
                  state == users[u].state
                  m == get_mission(mission_id_of("MISSION:", state))
              IN
              /\ users' = users
              /\ ledger' = ledger
              /\ submissions' = submissions
              /\ recipe_fingerprints' = recipe_fingerprints
              /\ pending_rewards' =
                     IF slots[h].pc = "process_due_rewards_delete"
                     THEN delete_pending(pending_rewards, u, slots[h].r.mission_id)
                     ELSE pending_rewards
              /\ IF reply'.text = WALLET_INCORRECT
                 THEN /\ state \in {"AWAIT_WALLET", "AWAIT_WALLET_CHANGE"}
                      /\ reply'.data \notin WalletTexts
                 ELSE /\ m # NoMission
                      /\ state = "MISSION:" \o m.id
                      /\ m.validator = "x_profile" => reply'.data \notin XProfileTexts
                      /\ m.validator = "recipe_text" => reply'.data \notin RecipeTexts
      ]_vars

\* A text that is no recipe was sent in the state of the recipe mission,
\* while the reward of an earlier submission was pending, and got the
\* validation error.
C25_Witness ==
    /\ reply.text = VALIDATION_ERROR
    /\ reply.data = "hello"
    /\ users[reply.user_id].state = "MISSION:recipe_submit"
    /\ pending_rewards # {}

\* The handler of slot h takes a step of a mission submission that collides:
\* before its own insert the ledger already held the mission's key or a
\* pending reward of the mission existed, or its own insert has just failed.
duplicate_claim_step(h) ==
    LET s == slots[h] IN
    /\ slots'[h] # s
    /\ \/ /\ s.pc \in {"claim_recipe_fingerprint", "insert_submission",
                       "mission_add_pending_reward", "mission_add_points"}
          /\ \/ mission_entries(s.user_id, s.mission_id) > 0
             \/ pending_of(s.user_id, s.mission_id) # {}
       \/ /\ s.pc \in {"mission_delayed_set_state", "mission_immediate_set_state"}
          /\ ~s.ok

\* C26: no step of a mission submission that collides with an existing
\* ledger key or an existing pending reward changes the ledger, the pending
\* rewards, the fingerprints, the submissions or the user's state.
C26_DuplicateClaimNoSideEffect ==
    [][\A h \in Slots :
          duplicate_claim_step(h) =>
              /\ ledger' = ledger
              /\ pending_rewards' = pending_rewards
              /\ recipe_fingerprints' = recipe_fingerprints
              /\ submissions' = submissions
              /\ users'[slots[h].user_id].state = users[slots[h].user_id].state
      ]_vars

(***************************************************************************)
(* Two users submit recipes: the last user sends only the first recipe and *)
(* goes silent once the recipe is claimed; user 1 arrives when the last    *)
(* user has registered a wallet, and sends either recipe.                  *)
(* One handler per user at a time; the handlers of the two users           *)
(* interleave.                                                             *)
(***************************************************************************)
dedup_sender(h) ==
    /\ serial(h)
    /\ IF single(h)
       THEN NUsers \in DOMAIN users /\ users[NUsers].wallet_address # NULL
       ELSE ~\E f \in recipe_fingerprints : f.user_id = h[1]

receive_dedup_text(h) ==
    dedup_sender(h) /\ receive(h, "text", IF single(h) THEN "dedup" ELSE "dedup_first")

receive_dedup_button(h) ==
    dedup_sender(h) /\ receive(h, "callback", "dedup")

NextDedup ==
    \/ tick
    \/ \E h \in Slots :
        \/ receive_dedup_text(h)
        \/ receive_dedup_button(h)
        \/ handler_ensure_user(h)
        \/ handler_get_user(h)
        \/ process_due_rewards_select(h)
        \/ process_due_rewards_add_points(h)
        \/ process_due_rewards_delete(h)
        \/ connect_wallet_get_user(h)
        \/ connect_wallet_set_state(h)
        \/ await_wallet_update(h)
        \/ wallet_confirm_select(h)
        \/ wallet_confirm_dup(h)
        \/ wallet_confirm_update(h)
        \/ wallet_confirm_register(h)
        \/ bonus_has_wallet(h)
        \/ mission_set_state(h)
        \/ on_any_text_claim_recipe_fingerprint(h)
        \/ on_any_text_insert_submission(h)
        \/ mission_add_pending_reward(h)
        \/ mission_delayed_set_state(h)

SpecDedup == Init /\ [][NextDedup]_vars

\* The step of handler h that rejects a recipe text as a duplicate.
rejection_step(h) ==
    /\ slots[h].pc = "claim_recipe_fingerprint"
    /\ replies(h, RECIPE_DUPLICATE)

\* C27: the step that rejects a submission as a duplicate recipe leaves the
\* ledger, the pending rewards, the submissions and the fingerprints as they
\* were and the user in the state MISSION:<id> of the mission; and every
\* submission that is then accepted, being answered with one of the two
\* replies of the delayed branch, has its reward scheduled or in the ledger.
C27_RejectionConsumesNothing ==
    /\ [][\A h \in Slots :
            rejection_step(h) =>
                /\ ledger' = ledger
                /\ pending_rewards' = pending_rewards
                /\ submissions' = submissions
                /\ recipe_fingerprints' = recipe_fingerprints
                /\ users[slots[h].user_id].state = "MISSION:" \o slots[h].mission_id
                /\ users'[slots[h].user_id].state = "MISSION:" \o slots[h].mission_id
         ]_vars
    /\ [](reply.text \in {SAVED_LATER, SAVED_SCHEDULED} =>
            \/ pending_of(reply.user_id, reply.mission_id) # {}
            \/ mission_entries(reply.user_id, reply.mission_id) > 0)

\* User 1's first submission is rejected because the other user owns the
\* recipe: user 1 has no ledger entry, no pending reward, no submission and
\* no fingerprint, and is still awaited to submit.
C27_Witness ==
    /\ reply.text = RECIPE_DUPLICATE
    /\ reply.user_id = 1
    /\ \E f \in recipe_fingerprints :
        /\ f.mission_id = reply.mission_id
        /\ f.fingerprint = normalize_recipe_text(characters(reply.data))
        /\ f.user_id # 1
    /\ ~\E f \in recipe_fingerprints : f.user_id = 1
    /\ ~\E x \in submissions : x.user_id = 1
    /\ pending_of(1, reply.mission_id) = {}
    /\ mission_entries(1, reply.mission_id) = 0
    /\ users[1].state = "MISSION:" \o reply.mission_id

\* The two messages that report a mission id absent from the catalog.
MISCONFIGURED ==
    {"Mission not found in config.json.", "Mission is not configured. Please try again."}

new_bonus_rows ==
    {r \in BagToSet(ledger') : r.type = "streak_bonus" /\ r \notin BagToSet(ledger)}

\* C30: every streak-bonus entry of a user for a threshold k and a date d
\* comes with daily check-in entries of the user on the k consecutive dates
\* that end at d; and a step adds a bonus entry only as the last step of a
\* check-in of that user and date whose own daily entry was newly credited.
C30_BonusBackedByCheckins ==
    /\ [](\A u \in UserIds : \A d \in Days : \A rule \in STREAK_BONUSES :
            bonus_rows(u, rule, d) # {} =>
                \A i \in 0..(rule.days - 1) : (d - i) \in checked_in(u))
    /\ [][\A r \in new_bonus_rows :
            \E h \in Slots : \E rule \in STREAK_BONUSES :
                /\ slots[h].pc = "daily_checkin_streak_bonus"
                /\ slots'[h].pc = "done"
                /\ slots[h].ok
                /\ r.user_id = slots[h].user_id
                /\ r.unique_key = streak_bonus_key(rule.days, slots[h].today_date)
                /\ slots[h].today_date \in checked_in(r.user_id)
         ]_vars

\* User 1 missed the first date and checked in on the three dates after it:
\* the check-in of the last date is answered with the streak 3 and the
\* bonus of that date is in the ledger.
C30_Witness ==
    /\ reply.text = CHECKIN_COMPLETE
    /\ reply.user_id = 1
    /\ reply.today_date = 3
    /\ reply.streak = 3
    /\ checked_in(1) = {1, 2, 3}
    /\ \E rule \in STREAK_BONUSES : bonus_rows(1, rule, 3) # {}

=============================================================================
